---- MODULE Spec2Model ----
(***************************************************************************)
(* Model of the version ledger maintained by scripts/publish-version.py    *)
(* and scripts/backfill-versions.py: one project's NDJSON file, the merge  *)
(* that publish-version.py applies to it (update_versions_file_batch), the *)
(* two publish input paths (JSON payload, cargo-dist manifest) and the     *)
(* backfill that rewrites the file from the upstream release listing.      *)
(*                                                                         *)
(* Strings that the code only compares or sorts are modelled by small      *)
(* naturals with the same order: a version identifier is a number in       *)
(* 1..MaxVersionId, a timestamp a number in 1..MaxTime.  The value "" (a   *)
(* missing or empty JSON field, falsy in Python) is modelled by the        *)
(* number 0 for such fields.                                               *)
(***************************************************************************)
EXTENDS Integers, Sequences, FiniteSets, TLC

\* Bounds of the model.
MaxVersionId == 3
MaxBatch == 2
MaxCap == 3
MaxLedger == 3

VARIABLES
    file,          \* the lines of {project_name}.ndjson, in file order
    project_name,  \* the project whose ledger the file is
    max_versions,  \* the retention cap handed to update_versions_file_batch
    now,           \* the wall clock read by datetime.now()
    op,            \* history: the last operation run
    arg,           \* history: the input of the last operation
    before,        \* history: the decoded ledger before the last operation
    batch,         \* history: the versions the last operation brought to the
                   \* file, or the value the function it applied returned
    repeated,      \* history: the last operation re-ran the one before it on the same input
    status,        \* history: "ok" when the last operation wrote the file (or
                   \* the function returned), "abort" when it raised
    requests,      \* history: the HTTP requests of the last operation, in order
    pc,            \* concurrent invocations: where each one stands
    loaded,        \* concurrent invocations: the list each one read from the file
    seen           \* history: what each concurrent invocation found when it read

vars ==
    <<file, project_name, max_versions, now, op, arg, before, batch, repeated,
      status, requests, pc, loaded, seen>>

\* The variables of the concurrent invocations, untouched by a single one.
invocations == <<pc, loaded, seen>>

----------------------------------------------------------------------------
\* Data: Artifact and Version (publish-version.py:38-49).

Min(a, b) == IF a < b THEN a ELSE b

Range(s) == {s[i] : i \in DOMAIN s}

\* Sequences over S of length at most n.
SeqUpTo(S, n) == UNION {[1..k -> S] : k \in 0..n}

\* A file name "{prefix}-{stem}.{ext}", with ".sha256" appended when sidecar
\* is TRUE.  prefix 1 is the project's (app's) own name, prefix 2 is
\* "cpython", prefix 0 any other word; stem stands for the platform string
\* (0: empty).  A name of the runtime distribution,
\* "cpython-{ver}+{date}-{tail}.{ext}", carries its version and build date
\* in ver and date, and in tail the tokens between the dashes of the rest
\* of the name: each token is the sequence of its parts between "+" signs
\* (<<"pgo", "lto">> for "pgo+lto"; <<>> for the empty token of a name
\* with two dashes in a row or a dash before the extension).
PbsFileName(ver, date, tail, ext) ==
    [prefix |-> 2, stem |-> 0, ext |-> ext, sidecar |-> FALSE,
     ver |-> ver, date |-> date, tail |-> tail]

FileName(prefix, stem, ext, sidecar) ==
    [prefix |-> prefix, stem |-> stem, ext |-> ext, sidecar |-> sidecar,
     ver |-> 0, date |-> 0, tail |-> <<>>]

\* An artifact; url is given by the file name the URL ends in.
Artifact(platform, variant, url, archive_format, sha256) ==
    [platform |-> platform, variant |-> variant, url |-> url,
     archive_format |-> archive_format, sha256 |-> sha256]

Version(version, date, artifacts) ==
    [version |-> version, date |-> date, artifacts |-> artifacts]

\* No concurrent invocation is under way.
NoInvocations ==
    /\ pc = <<>>
    /\ loaded = <<>>
    /\ seen = <<>>

\* list.sort(key=...) is stable: ascending by key, ties in their original
\* order.  key is a sequence of integers parallel to s.
SortRank(key, i) ==
    1 + Cardinality({j \in DOMAIN key :
                        key[j] < key[i] \/ (key[j] = key[i] /\ j < i)})

StableSort(s, key) ==
    [k \in DOMAIN s |-> s[CHOOSE i \in DOMAIN s : SortRank(key, i) = k]]

----------------------------------------------------------------------------
\* The ledger file: one compact JSON object per line.

\* json.dumps(version, separators=(",", ":")): the text of one line.
json_dumps(version) == [json |-> TRUE, obj |-> version]

\* json.loads(line): the object a line decodes to (the caller has checked
\* that the line is JSON).
json_loads(line) == line.obj

\* Faulty variant of LoadExisting: the lines that are not JSON skipped and
\* the others kept.
LoadSkippingBad(lines) ==
    LET good == SelectSeq(lines, LAMBDA line : line.json)
    IN  [i \in DOMAIN good |-> good[i].obj]

\* Lines 278-293: the versions loaded from the existing file; a line that
\* is not JSON makes the loop raise JSONDecodeError and the handler resets
\* the list to empty.  A missing file reads like an empty one.
LoadExisting(lines) ==
    IF \E i \in DOMAIN lines : ~lines[i].json
    THEN <<>>
    ELSE [i \in DOMAIN lines |-> json_loads(lines[i])]

\* The value of the field version in an object that has no key "version".
NoKey == 0 - 1

\* A line of the file that is valid JSON but no Version: an object without
\* the key "version".
KeylessLine == [json |-> TRUE, obj |-> Version(NoKey, 0, <<>>)]

\* A line of the file that is not JSON.
NotJsonLine == [json |-> FALSE, obj |-> Version(0, 0, <<>>)]

\* Lines 313-316: the lines written back.
WriteLines(versions) == [i \in DOMAIN versions |-> json_dumps(versions[i])]

\* The decoded content of the file, for the properties.
Ledger == LoadExisting(file)

----------------------------------------------------------------------------
\* update_versions_file_batch (publish-version.py:274-316).

\* Line 295: the identifiers of the incoming batch.
IncomingVersions(new_versions) ==
    {new_versions[i].version : i \in DOMAIN new_versions}

\* Faulty variants of RemoveIncoming: the filter left out; only the first batch
\* element's identifier filtered.
RemoveNothing(versions, new_versions) == versions

RemoveFirstOnly(versions, new_versions) ==
    IF new_versions # <<>>
    THEN SelectSeq(versions, LAMBDA v : v.version # new_versions[1].version)
    ELSE versions

\* Lines 296-301: drop the existing entries the batch replaces.
RemoveIncoming(versions, new_versions) ==
    IF IncomingVersions(new_versions) # {}
    THEN SelectSeq(versions,
                   LAMBDA v : v.version \notin IncomingVersions(new_versions))
    ELSE versions

\* Lines 303-304: for version in new_versions: versions.insert(0, version),
\* from batch position i on.
RECURSIVE InsertLoop(_, _, _)
InsertLoop(versions, new_versions, i) ==
    IF i > Len(new_versions)
    THEN versions
    ELSE InsertLoop(<<new_versions[i]>> \o versions, new_versions, i + 1)

\* Faulty variant of InsertIncoming: the batch put in front as it stands
\* (versions[0:0] = new_versions).
InsertInBatchOrder(versions, new_versions) == new_versions \o versions

\* Faulty variant of InsertIncoming: the batch put after the existing
\* entries.
InsertAtEnd(versions, new_versions) == versions \o new_versions

InsertIncoming(versions, new_versions) == InsertLoop(versions, new_versions, 1)

\* Line 300: version["version"] raises KeyError for a loaded object without
\* that key; the lookup runs outside the try of lines 282-293, and only
\* when the batch is not empty (line 296).
FilterRaises(versions, new_versions) ==
    /\ IncomingVersions(new_versions) # {}
    /\ \E k \in DOMAIN versions : versions[k].version = NoKey

\* Faulty variant of Truncate: the slice one entry too long.
TruncateOneMore(versions, cap) == SubSeq(versions, 1, Min(cap + 1, Len(versions)))

\* Line 307: versions[:max_versions], for max_versions >= 0.
Truncate(versions, cap) == SubSeq(versions, 1, Min(cap, Len(versions)))

\* The list the merge writes, given the lines of the existing file.
update_versions_file_batch(lines, new_versions, cap) ==
    Truncate(
        InsertIncoming(RemoveIncoming(LoadExisting(lines), new_versions),
                       new_versions),
        cap)

\* TRUE when the merge raises before it writes.
MergeRaises(lines, new_versions) ==
    FilterRaises(LoadExisting(lines), new_versions)

----------------------------------------------------------------------------
\* The merge taken alone: update_versions_file_batch(path, new_versions,
\* max_versions) applied to an existing file, then applied again to its own
\* output with the same batch.

\* Two artifact lists of one platform that differ in the digest: the
\* existing file holds the first, the batch brings the second.
ArtifactsA == <<Artifact(1, "default", FileName(1, 1, "tar.gz", FALSE), "tar.gz", 1)>>
ArtifactsB == <<Artifact(1, "default", FileName(1, 1, "tar.gz", FALSE), "tar.gz", 2)>>

ExistingVersions == {Version(v, 1, ArtifactsA) : v \in 1..MaxVersionId}
IncomingBatchVersions == {Version(v, 1, ArtifactsB) : v \in 1..MaxVersionId}

\* Existing files and batches may name a version twice: nothing in the
\* code that builds them prevents it.
MergeLedgers == SeqUpTo(ExistingVersions, MaxLedger)
MergeBatches == SeqUpTo(IncomingBatchVersions, MaxBatch)

Merge ==
    /\ ~repeated
    /\ IF MergeRaises(file, batch)
       THEN /\ status' = "abort"
            /\ UNCHANGED file
       ELSE /\ status' = "ok"
            /\ file' = WriteLines(update_versions_file_batch(
                           file, batch, max_versions))
    /\ op' = "merge"
    /\ before' = Ledger
    /\ repeated' = (op = "merge")
    /\ UNCHANGED <<project_name, max_versions, now, arg, batch, requests>>
    /\ UNCHANGED invocations

MergeInit ==
    /\ file \in {WriteLines(l) : l \in MergeLedgers}
    /\ project_name = "uv"
    /\ batch \in MergeBatches
    /\ max_versions \in 1..MaxCap
    /\ now = 1
    /\ op = "init"
    /\ arg = <<>>
    /\ before = <<>>
    /\ repeated = FALSE
    /\ status = "ok"
    /\ requests = <<>>
    /\ NoInvocations

MergeNext == Merge

MergeSpec == MergeInit /\ [][MergeNext]_vars

----------------------------------------------------------------------------
\* Properties of the merge taken alone (checked under MergeSpec).

\* The number of batch elements that fit under the cap.
FrontLen == Min(Len(batch), Len(Ledger))

\* C2: merging the same batch a second time into the output of the first
\* merge leaves the ledger as the first merge wrote it, entry for entry.
C2_MergeIdempotent == repeated => Ledger = before

\* C2 witness: a second merge of a two-version batch that replaced an
\* existing entry and whose output was cut by the cap.
C2_Witness ==
    /\ repeated
    /\ Len(batch) = 2
    /\ batch[1].version # batch[2].version
    /\ Len(Ledger) = max_versions
    /\ Len(Ledger) > Len(batch)

\* C3: the ledger written by a merge holds at most max_versions entries.
C3_MergeWithinCap == op = "merge" => Len(Ledger) <= max_versions

\* C3 witness: a first merge where the existing ledger and the batch are
\* each longer than the cap.
C3_Witness ==
    /\ op = "merge"
    /\ ~repeated
    /\ Len(before) > max_versions
    /\ Len(batch) > max_versions
    /\ Len(Ledger) = max_versions

\* C5 as stated: the front of the ledger is made of batch elements in
\* the batch's own order (batch element i before batch element j, i < j).
C5_BatchOrderKept ==
    op = "merge" =>
        \A k1, k2 \in 1..FrontLen :
            k1 < k2 =>
                \E i, j \in DOMAIN batch :
                    /\ i < j
                    /\ Ledger[k1] = batch[i]
                    /\ Ledger[k2] = batch[j]

\* C5 amended: the front of the ledger is the batch in reverse order (the
\* last batch element first), and every entry after it is an existing
\* entry that the batch does not name.
C5_BatchOrderReversed ==
    op = "merge" =>
        \A k \in DOMAIN Ledger :
            /\ k <= Len(batch) => Ledger[k] = batch[Len(batch) + 1 - k]
            /\ k > Len(batch) =>
                   /\ Ledger[k] \in Range(before)
                   /\ Ledger[k].version \notin IncomingVersions(batch)

\* C5 witness: a first merge of two different versions, both kept, in
\* front of a retained existing entry.
C5_Witness ==
    /\ op = "merge"
    /\ ~repeated
    /\ Len(batch) = 2
    /\ batch[1].version # batch[2].version
    /\ Len(Ledger) > 2
    /\ Ledger[1] = batch[2]
    /\ Ledger[2] = batch[1]

\* The spec's scenario, with 1.9.0, 2.0.0, 2.1.0 as versions 1, 2, 3.
ScenarioExisting == <<Version(2, 1, ArtifactsA), Version(1, 1, ArtifactsA)>>
ScenarioBatch == <<Version(2, 1, ArtifactsB), Version(3, 1, ArtifactsB)>>
ScenarioResult ==
    <<Version(3, 1, ArtifactsB), Version(2, 1, ArtifactsB), Version(1, 1, ArtifactsA)>>

InScenario ==
    /\ op = "merge"
    /\ ~repeated
    /\ before = ScenarioExisting
    /\ batch = ScenarioBatch
    /\ max_versions >= 3

\* An entry of the ledger that came with the batch and carries version v.
IncomingStands(v) ==
    \E k \in DOMAIN Ledger : Ledger[k].version = v /\ Ledger[k] \in Range(batch)

\* No entry of the ledger that the batch names is an existing record.
ExistingReplaced ==
    \A k \in DOMAIN Ledger :
        Ledger[k].version \in IncomingVersions(batch) => Ledger[k] \in Range(batch)

\* C6 as stated: every existing entry that the batch names is gone and an
\* incoming record with its version stands in the ledger.
C6_ReplaceByKey ==
    op = "merge" =>
        /\ ExistingReplaced
        /\ \A k \in DOMAIN before :
               before[k].version \in IncomingVersions(batch) =>
                   IncomingStands(before[k].version)

\* C6 amended: every existing entry that the batch names is gone; an
\* incoming record with its version stands in the ledger whenever the
\* place of that record (batch element i lands at len(batch) + 1 - i) is
\* within the cap; and the scenario gives [2.1.0, 2.0.0 (new), 1.9.0].
C6_ReplaceByKeyWithinCap ==
    op = "merge" =>
        /\ ExistingReplaced
        /\ \A k \in DOMAIN before :
               (\E i \in DOMAIN batch :
                    /\ batch[i].version = before[k].version
                    /\ Len(batch) + 1 - i <= max_versions)
               => IncomingStands(before[k].version)
        /\ InScenario => Ledger = ScenarioResult

\* C6 witness: the scenario has been merged.
C6_Witness == InScenario /\ Len(Ledger) = 3

----------------------------------------------------------------------------
\* The merge applied to a damaged file: a ledger in which one line is not
\* JSON, or is JSON without the key "version".  arg keeps the lines of the
\* file as the merge found them.

InsertAt(s, i, e) == SubSeq(s, 1, i - 1) \o <<e>> \o SubSeq(s, i, Len(s))

CorruptFiles ==
    UNION {{InsertAt(WriteLines(l), i, bad) :
               i \in 1..(Len(l) + 1), bad \in {NotJsonLine, KeylessLine}} :
           l \in SeqUpTo(ExistingVersions, MaxLedger - 1)}

CorruptInit ==
    /\ file \in CorruptFiles
    /\ arg = file
    /\ project_name = "uv"
    /\ batch \in MergeBatches
    /\ max_versions \in 1..MaxCap
    /\ now = 1
    /\ op = "init"
    /\ before = <<>>
    /\ repeated = FALSE
    /\ status = "ok"
    /\ requests = <<>>
    /\ NoInvocations

CorruptSpec == CorruptInit /\ [][MergeNext]_vars

\* The file the first merge found had a line that is not JSON.
FoundNotJson == \E i \in DOMAIN arg : ~arg[i].json

\* The file the first merge found had a line without the key "version".
FoundKeyless == \E i \in DOMAIN arg : arg[i] = KeylessLine

\* The merge wrote the batch alone: its elements from the last one
\* backwards (the order of C5), as many as the cap admits.
WroteBatchOnly ==
    /\ status = "ok"
    /\ Len(Ledger) = Min(Len(batch), max_versions)
    /\ \A k \in DOMAIN Ledger : Ledger[k] = batch[Len(batch) + 1 - k]

\* C11: when a line of the existing file is not JSON, the merge does not
\* abort, keeps no line of the existing file (not even those before the
\* bad one) and writes the batch alone, cut to the cap.
C11_BadLineDiscardsLedger ==
    (op = "merge" /\ ~repeated /\ FoundNotJson) => WroteBatchOnly

\* C11 witness: a good line that the batch does not name stood before the
\* bad one, and the merge wrote the batch alone under a cap that had room
\* for that line.
C11_Witness ==
    /\ op = "merge"
    /\ ~repeated
    /\ Len(arg) >= 2
    /\ arg[1].json
    /\ arg[1].obj.version \notin IncomingVersions(batch)
    /\ ~arg[2].json
    /\ batch # <<>>
    /\ Len(batch) < max_versions
    /\ Len(Ledger) = Len(batch)

\* C19: when a line of the existing file is malformed (not JSON, or JSON
\* without a version identifier), the merge completes and writes the
\* batch alone.
C19_MalformedLineRecovered ==
    (op = "merge" /\ ~repeated /\ (FoundNotJson \/ FoundKeyless)) => WroteBatchOnly

----------------------------------------------------------------------------
\* Two invocations of the merge on the same file at the same time.  Each
\* runs update_versions_file_batch in three steps, between which the other
\* may run: it reads the file (lines 281-293), it computes the new list and
\* opens the file for writing, which truncates it (lines 295-313), and it
\* writes its lines, which reach the file when the buffer is flushed at
\* the close (lines 315-316).  There is no lock.  arg[p] is the batch of
\* invocation p.

Procs == {1, 2}

\* What an invocation found when it read: the invocations that had
\* finished, and those that had the file open for writing.
Seen(done, writing) == [done |-> done, writing |-> writing]

\* The ledgers the publish command leaves: versions in descending order.
RaceLedgers ==
    {l \in MergeLedgers : \A i, j \in DOMAIN l : i < j => l[i].version > l[j].version}

\* Faulty variant of LoadedVersions: the file read again at the moment of
\* the write.
FreshVersions(p) == LoadExisting(file)

\* The local list "versions" of invocation p, as it read it.
LoadedVersions(p) == loaded[p]

\* The content of the file after an invocation flushes its lines own at
\* offset 0 of a file that holds current: nothing is left of current when
\* it is not longer than own; else what lies past the end of own stays,
\* starting at a line boundary or inside a line (a fragment that is not
\* JSON).
Overwrite(current, own) ==
    IF current = <<>> THEN {own}
    ELSE {own, own \o <<NotJsonLine>>}
         \cup (IF Len(current) > Len(own)
               THEN {own \o SubSeq(current, Len(own) + 1, Len(current)),
                     own \o <<NotJsonLine>>
                         \o SubSeq(current, Len(own) + 2, Len(current))}
               ELSE {})

\* Lines 281-293.
Load(p) ==
    /\ pc[p] = "start"
    /\ pc' = [pc EXCEPT ![p] = "loaded"]
    /\ loaded' = [loaded EXCEPT ![p] = LoadExisting(file)]
    /\ seen' = [seen EXCEPT ![p] = Seen({q \in Procs : pc[q] = "done"},
                                       {q \in Procs : pc[q] = "writing"})]
    /\ UNCHANGED <<file, project_name, max_versions, now, op, arg, before,
                   batch, repeated, status, requests>>

\* Lines 295-313.
OpenForWrite(p) ==
    /\ pc[p] = "loaded"
    /\ IF FilterRaises(LoadedVersions(p), arg[p])
       THEN /\ pc' = [pc EXCEPT ![p] = "raised"]
            /\ UNCHANGED <<file, loaded>>
       ELSE /\ pc' = [pc EXCEPT ![p] = "writing"]
            /\ loaded' = [loaded EXCEPT ![p] =
                              Truncate(InsertIncoming(
                                           RemoveIncoming(LoadedVersions(p), arg[p]),
                                           arg[p]),
                                       max_versions)]
            /\ file' = <<>>
    /\ UNCHANGED <<project_name, max_versions, now, op, arg, before, batch,
                   repeated, status, requests, seen>>

\* Lines 315-316 and the close of the file.
Close(p) ==
    /\ pc[p] = "writing"
    /\ pc' = [pc EXCEPT ![p] = "done"]
    /\ file' \in Overwrite(file, WriteLines(loaded[p]))
    /\ op' = "merge"
    /\ batch' = arg[p]
    /\ UNCHANGED <<project_name, max_versions, now, arg, before, repeated,
                   status, requests, loaded, seen>>

RaceInit ==
    /\ file \in {WriteLines(l) : l \in RaceLedgers}
    /\ arg \in {<<<<x>>, <<y>>>> : x \in IncomingBatchVersions,
                                  y \in IncomingBatchVersions}
    /\ project_name = "uv"
    /\ max_versions \in 1..MaxCap
    /\ pc = [p \in Procs |-> "start"]
    /\ loaded = [p \in Procs |-> <<>>]
    /\ seen = [p \in Procs |-> Seen({}, {})]
    /\ now = 1
    /\ op = "init"
    /\ before = <<>>
    /\ batch = <<>>
    /\ repeated = FALSE
    /\ status = "ok"
    /\ requests = <<>>

RaceNext == \E p \in Procs : Load(p) \/ OpenForWrite(p) \/ Close(p)

RaceSpec == RaceInit /\ [][RaceNext]_vars

\* Both invocations completed, and they published different versions.
BothPublished ==
    /\ \A p \in Procs : pc[p] = "done"
    /\ arg[1][1].version # arg[2][1].version

\* Both invocations read the file before either opened it for writing.
BothReadFirst == \A p \in Procs : seen[p] = Seen({}, {})

\* Invocation q started after invocation p had finished.
OneAfterTheOther ==
    \E p, q \in Procs :
        /\ p # q
        /\ seen[p] = Seen({}, {})
        /\ seen[q] = Seen({p}, {})

\* C12: when both invocations read before either writes, both complete
\* and the final ledger lacks the version one of them published; when one
\* runs after the other (and the cap has room for two), the final ledger
\* holds both versions.
C12_LostUpdate ==
    BothPublished =>
        /\ BothReadFirst => \E p \in Procs : arg[p][1] \notin Range(Ledger)
        /\ (OneAfterTheOther /\ max_versions >= 2) =>
               \A p \in Procs : arg[p][1] \in Range(Ledger)

\* C12 witness: both read first, both completed, the cap had room for
\* both versions, and the final ledger holds one of them and not the other.
C12_Witness ==
    /\ BothPublished
    /\ BothReadFirst
    /\ max_versions >= 2
    /\ \E p, q \in Procs :
           /\ arg[p][1] \in Range(Ledger)
           /\ arg[q][1] \notin Range(Ledger)

----------------------------------------------------------------------------
\* The commands.  One project's ledger is modelled: every command below
\* names that project, so every write goes to the same file.  The clock is
\* strictly monotonic: each run of a command reads now and the next run
\* reads a later time.

\* publish-version.py:275: main() calls the merge with the default
\* max_versions = 100; the model runs the commands with the cap scaled down
\* to DefaultMaxVersions.
DefaultMaxVersions == 2

\* At most MaxRuns command runs in a behaviour.
MaxRuns == 3

\* Variant strings in their lexicographic order, for the sort keys.
Variants ==
    <<"", "debug", "debug+full", "debug+install_only", "default", "full",
      "gnu", "install_only", "pgo", "pgo+full", "pgo+install_only",
      "pgo+lto", "pgo+lto+full", "pgo+lto+install_only">>
VariantRank(variant) == CHOOSE i \in DOMAIN Variants : Variants[i] = variant

\* key=lambda a: (a["platform"], a["variant"]) as one integer.
ArtifactKey(artifact) ==
    artifact.platform * (Len(Variants) + 1) + VariantRank(artifact.variant)

\* artifacts.sort(key=lambda a: (a["platform"], a["variant"]))
SortArtifacts(artifacts) ==
    StableSort(artifacts, [i \in DOMAIN artifacts |-> ArtifactKey(artifacts[i])])

\* versions.sort(key=lambda version: version["version"], reverse=True):
\* descending by version, ties in their original order.
SortVersionsDescending(versions) ==
    StableSort(versions, [i \in DOMAIN versions |-> 0 - versions[i].version])

\* The result of a function that raised.
Raised == [ok |-> FALSE]
Returned(value) == [ok |-> TRUE, value |-> value]

----------------------------------------------------------------------------
\* publish-version.py --format json (main, lines 375-405).

\* A raw artifact of a payload; variant "absent" stands for a missing key.
RawArtifact(platform, variant, sha256) ==
    [platform |-> platform, variant |-> variant,
     url |-> FileName(1, platform, "tar.gz", FALSE),
     archive_format |-> "tar.gz", sha256 |-> sha256]

\* normalize_payload_version (lines 216-246), at clock reading t.
normalize_payload_version(raw, t) ==
    IF raw.version = 0 THEN Raised
    ELSE IF raw.artifacts = <<>> THEN Raised
    ELSE Returned(
        Version(raw.version,
                IF raw.date # 0 THEN raw.date ELSE t,
                SortArtifacts(
                    [i \in DOMAIN raw.artifacts |->
                        Artifact(raw.artifacts[i].platform,
                                 IF raw.artifacts[i].variant = "absent"
                                 THEN "default"
                                 ELSE raw.artifacts[i].variant,
                                 raw.artifacts[i].url,
                                 raw.artifacts[i].archive_format,
                                 raw.artifacts[i].sha256)])))

\* Lines 257-261: the entries normalized: those of payload["versions"]
\* when that list is non-empty, else the payload itself.
PayloadEntries(payload) ==
    IF payload.versions # <<>>
    THEN payload.versions
    ELSE <<[version |-> payload.version, date |-> payload.date,
            artifacts |-> payload.artifacts]>>

\* Line 263.
SortPayloadVersions(versions) == SortVersionsDescending(versions)

\* An extraction that leaves out the entries it cannot normalize.
extract_valid_payload_versions(payload, name_override, t) ==
    LET entries == SelectSeq(PayloadEntries(payload),
                             LAMBDA raw : normalize_payload_version(raw, t).ok)
    IN  Returned(SortPayloadVersions(
            [i \in DOMAIN entries |-> normalize_payload_version(entries[i], t).value]))

\* extract_payload_versions (lines 249-264), at clock reading t.
extract_payload_versions(payload, name_override, t) ==
    LET name == IF name_override # 0 THEN name_override ELSE payload.name
        entries == PayloadEntries(payload)
        normalized == [i \in DOMAIN entries |->
                          normalize_payload_version(entries[i], t)]
    IN  IF name = 0 THEN Raised
        ELSE IF \E i \in DOMAIN normalized : ~normalized[i].ok THEN Raised
        ELSE Returned(SortPayloadVersions(
                 [i \in DOMAIN normalized |-> normalized[i].value]))

\* Payload entries: version 1 dated, with its artifacts out of order;
\* version 2 undated; version 2 without artifacts; an entry without
\* version.
PayloadArtifactsTwo == <<RawArtifact(2, "absent", 1), RawArtifact(1, "default", 1)>>
PayloadArtifactsOne == <<RawArtifact(1, "absent", 2)>>

RawEntries ==
    {[version |-> 1, date |-> 1, artifacts |-> PayloadArtifactsTwo],
     [version |-> 2, date |-> 0, artifacts |-> PayloadArtifactsOne],
     [version |-> 2, date |-> 1, artifacts |-> <<>>],
     [version |-> 0, date |-> 1, artifacts |-> PayloadArtifactsOne]}

\* A payload with a "versions" list.
ListPayload(name, versions) ==
    [json |-> TRUE, name |-> name, version |-> 0, date |-> 0,
     artifacts |-> <<>>, versions |-> versions]

\* A payload that is itself one version.
SinglePayload(name, raw) ==
    [json |-> TRUE, name |-> name, version |-> raw.version, date |-> raw.date,
     artifacts |-> raw.artifacts, versions |-> <<>>]

\* Text on stdin that is not JSON.
NotJson ==
    [json |-> FALSE, name |-> 0, version |-> 0, date |-> 0,
     artifacts |-> <<>>, versions |-> <<>>]

\* The inputs of publish --format json: <<stdin, --name>>.
JsonInputs ==
    {<<ListPayload(1, <<a, b>>), 0>> : a \in RawEntries, b \in RawEntries}
    \cup {<<SinglePayload(1, a), 0>> : a \in RawEntries}
    \cup {<<SinglePayload(0, a), n>> : a \in {r \in RawEntries : r.version = 1},
                                       n \in {0, 1}}
    \cup {<<NotJson, 1>>,
          <<ListPayload(0, <<[version |-> 1, date |-> 1,
                              artifacts |-> PayloadArtifactsTwo]>>), 0>>}

\* main with --format json (lines 375-405): parse stdin, extract the
\* versions, merge them into the file; exit before the merge on an error.
PublishJson(payload, name_override) ==
    LET extracted == IF payload.json
                     THEN extract_payload_versions(payload, name_override, now)
                     ELSE Raised
    IN  /\ now <= MaxRuns
        /\ now' = now + 1
        /\ op' = "publish_json"
        /\ arg' = <<payload, name_override>>
        /\ repeated' = (op = "publish_json" /\ arg = <<payload, name_override>>)
        /\ before' = Ledger
        /\ requests' = <<>>
        /\ IF extracted.ok /\ ~MergeRaises(file, extracted.value)
           THEN /\ file' = WriteLines(update_versions_file_batch(
                               file, extracted.value, max_versions))
                /\ batch' = extracted.value
                /\ status' = "ok"
           ELSE /\ status' = "abort"
                /\ batch' = <<>>
                /\ UNCHANGED file
        /\ UNCHANGED <<max_versions, project_name>>
        /\ UNCHANGED invocations

----------------------------------------------------------------------------
\* File names and HTTP, shared by the manifest path and the backfill.

\* get_archive_format (publish-version.py:64-73, backfill-versions.py:65-74).
get_archive_format(filename) ==
    IF filename.sidecar THEN "unknown"
    ELSE IF filename.ext = "tar.gz" THEN "tar.gz"
    ELSE IF filename.ext = "tar.zst" THEN "tar.zst"
    ELSE IF filename.ext = "zip" THEN "zip"
    ELSE "unknown"

\* An HTTP response: its status and, for a digest file, the first token of
\* its text.
Response(status_code, text) == [status_code |-> status_code, text |-> text]

\* The response to the attempt-th request of one URL: the server answers
\* from its script and repeats the last answer.
Answer(responses, attempt) == responses[Min(attempt, Len(responses))]

\* fetch_sha256 (publish-version.py:76-91) and fetch_sha256_file
\* (backfill-versions.py:113-129): the digest, or 0 for None.
RECURSIVE FetchAttempt(_, _)
FetchAttempt(responses, attempt) ==
    LET response == Answer(responses, attempt)
    IN  IF response.status_code = 404 THEN 0
        ELSE IF response.status_code = 200 THEN response.text
        ELSE IF response.status_code \in {502, 503, 504} /\ attempt < 3
             THEN FetchAttempt(responses, attempt + 1)
             ELSE 0

fetch_sha256(responses) == FetchAttempt(responses, 1)

\* One client.get: the kind of URL ("releases", "SHA256SUMS", "sha256"),
\* the file the URL names and, for the release listing, the page asked.
Request(kind, name, page) == [kind |-> kind, name |-> name, page |-> page]

\* A fetch that tries again after any answer but a 200.
RECURSIVE FetchLogRetryingAll(_, _, _)
FetchLogRetryingAll(name, responses, attempt) ==
    IF Answer(responses, attempt).status_code # 200 /\ attempt < 3
    THEN <<Request("sha256", name, 0)>>
         \o FetchLogRetryingAll(name, responses, attempt + 1)
    ELSE <<Request("sha256", name, 0)>>

\* The requests of fetch_sha256 / fetch_sha256_file for one URL: one per
\* pass of the loop "for attempt in range(1, 4)".
RECURSIVE FetchLog(_, _, _)
FetchLog(name, responses, attempt) ==
    LET response == Answer(responses, attempt)
    IN  IF response.status_code \in {502, 503, 504} /\ attempt < 3
        THEN <<Request("sha256", name, 0)>> \o FetchLog(name, responses, attempt + 1)
        ELSE <<Request("sha256", name, 0)>>

----------------------------------------------------------------------------
\* publish-version.py --format cargo-dist (main, lines 355-374, 390-405).

\* Lines 160-169: the artifact names skipped as non-binary.  The literal
\* names source.tar.gz, source.tar.gz.sha256 and sha256.sum do not start
\* with "{app_name}-" and fall under the first test.
SkippedName(artifact_name) ==
    \/ artifact_name.prefix # 1
    \/ artifact_name.sidecar
    \/ artifact_name.ext \in {"sh", "ps1"}

\* Lines 158-201: the artifacts built from a release's artifact names, from
\* position i on, appended to artifacts_data.  Each entry of names carries
\* the responses of its .sha256 URL.
RECURSIVE ManifestArtifacts(_, _, _)
ManifestArtifacts(names, i, artifacts_data) ==
    IF i > Len(names) THEN artifacts_data
    ELSE LET artifact_name == names[i].name
             sha256 == fetch_sha256(names[i].responses)
         IN  IF SkippedName(artifact_name)
             THEN ManifestArtifacts(names, i + 1, artifacts_data)
             ELSE IF artifact_name.ext \notin {"tar.gz", "zip"}
             THEN ManifestArtifacts(names, i + 1, artifacts_data)
             ELSE IF sha256 = 0
             THEN ManifestArtifacts(names, i + 1, artifacts_data)
             ELSE ManifestArtifacts(names, i + 1,
                      Append(artifacts_data,
                             Artifact(artifact_name.stem, "default",
                                      artifact_name,
                                      get_archive_format(artifact_name),
                                      sha256)))

\* Lines 183-185: the requests of the loop at lines 158-201, from position
\* i on: the .sha256 URL of every name that passed the tests before it.
RECURSIVE ManifestRequests(_, _)
ManifestRequests(names, i) ==
    IF i > Len(names) THEN <<>>
    ELSE IF SkippedName(names[i].name) \/ names[i].name.ext \notin {"tar.gz", "zip"}
         THEN ManifestRequests(names, i + 1)
         ELSE FetchLog([names[i].name EXCEPT !.sidecar = TRUE],
                       names[i].responses, 1)
              \o ManifestRequests(names, i + 1)

\* extract_version_info (lines 142-213), at clock reading t.  app_name is
\* the first release's (extract_github_info, lines 122-136, raises
\* ValueError when there is none), so the first release is the one whose
\* artifacts are read.
extract_version_info(manifest, t) ==
    IF manifest.releases = <<>> THEN Raised
    ELSE Returned(
        Version(manifest.announcement_tag, t,
                SortArtifacts(
                    ManifestArtifacts(manifest.releases[1].artifacts, 1, <<>>))))

\* The entries of a release's artifact list in a manifest.
Found(digest) == <<Response(200, digest)>>
NotFound == <<Response(404, 0)>>
RetriedThenFound(digest) == <<Response(503, 0), Response(200, digest)>>
Unavailable == <<Response(503, 0)>>

ManifestArtifactLists ==
    {<<[name |-> FileName(1, 2, "tar.gz", FALSE), responses |-> RetriedThenFound(3)],
       [name |-> FileName(1, 2, "tar.gz", TRUE), responses |-> NotFound],
       [name |-> FileName(1, 1, "zip", FALSE), responses |-> Found(4)],
       [name |-> FileName(1, 0, "sh", FALSE), responses |-> NotFound]>>,
     <<[name |-> FileName(1, 1, "tar.gz", FALSE), responses |-> NotFound],
       [name |-> FileName(1, 2, "zip", FALSE), responses |-> Unavailable]>>}

Manifests ==
    {[json |-> TRUE, announcement_tag |-> 1,
      releases |-> <<[app_name |-> 1, artifacts |-> a]>>]
         : a \in ManifestArtifactLists}
    \cup {[json |-> TRUE, announcement_tag |-> 2, releases |-> <<>>]}

\* main with --format cargo-dist: read the manifest, extract the version
\* (fetching the digests), merge it into the file.
PublishCargoDist(manifest) ==
    LET extracted == IF manifest.json
                     THEN extract_version_info(manifest, now)
                     ELSE Raised
    IN  /\ now <= MaxRuns
        /\ now' = now + 1
        /\ op' = "publish_cargo_dist"
        /\ arg' = manifest
        /\ repeated' = (op = "publish_cargo_dist" /\ arg = manifest)
        /\ before' = Ledger
        /\ requests' = IF extracted.ok
                       THEN ManifestRequests(manifest.releases[1].artifacts, 1)
                       ELSE <<>>
        /\ IF extracted.ok /\ ~MergeRaises(file, <<extracted.value>>)
           THEN /\ file' = WriteLines(update_versions_file_batch(
                               file, <<extracted.value>>, max_versions))
                /\ batch' = <<extracted.value>>
                /\ status' = "ok"
           ELSE /\ status' = "abort"
                /\ batch' = <<>>
                /\ UNCHANGED file
        /\ UNCHANGED <<max_versions, project_name>>
        /\ UNCHANGED invocations

----------------------------------------------------------------------------
\* backfill-versions.py: the checksum resolver.

\* A dict from file names to digests; get returns 0 for None.
EmptyDict == [name \in {} |-> 0]
DictGet(dict, key) == IF key \in DOMAIN dict THEN dict[key] ELSE 0
DictSet(dict, key, value) ==
    [name \in DOMAIN dict \cup {key} |-> IF name = key THEN value ELSE dict[name]]

\* The asset name "SHA256SUMS".
Sha256SumsName == FileName(0, 0, "SHA256SUMS", FALSE)

\* The empty string as a URL.
NoUrl == FileName(0, 0, "", FALSE)

\* An asset of a release: its name, whether browser_download_url is
\* non-empty, the responses of that URL and, for SHA256SUMS, the lines of
\* the text served.
Asset(name, browser_download_url, responses, sums_text) ==
    [name |-> name, browser_download_url |-> browser_download_url,
     responses |-> responses, sums_text |-> sums_text]

\* A line of SHA256SUMS: "checksum  [*]filename" has 2 fields; a line of
\* one token has 1.
SumsLine(fields, checksum, star, filename) ==
    [fields |-> fields, checksum |-> checksum, star |-> star, filename |-> filename]

\* parse_sha256sums (lines 97-110), from line i on.
RECURSIVE ParseSums(_, _, _)
ParseSums(lines, i, checksums) ==
    IF i > Len(lines) THEN checksums
    ELSE IF lines[i].fields # 2 THEN ParseSums(lines, i + 1, checksums)
    ELSE ParseSums(lines, i + 1,
                   DictSet(checksums, lines[i].filename, lines[i].checksum))

parse_sha256sums(text) == ParseSums(text, 1, EmptyDict)

\* A first loop that never finds a bundled manifest.
BundledIgnored(assets, i) == EmptyDict

\* Lines 142-151: the first SHA256SUMS asset, from asset i on, that is
\* served with status 200 and parses to at least one entry; EmptyDict when
\* there is none.
RECURSIVE BundledChecksums(_, _)
BundledChecksums(assets, i) ==
    IF i > Len(assets) THEN EmptyDict
    ELSE IF /\ assets[i].name = Sha256SumsName
            /\ assets[i].browser_download_url
            /\ Answer(assets[i].responses, 1).status_code = 200
            /\ DOMAIN parse_sha256sums(assets[i].sums_text) # {}
         THEN parse_sha256sums(assets[i].sums_text)
         ELSE BundledChecksums(assets, i + 1)

\* A second loop that stops at the first sidecar without a digest.
RECURSIVE SidecarChecksumsUntilMissing(_, _, _)
SidecarChecksumsUntilMissing(assets, i, checksums) ==
    IF i > Len(assets) THEN checksums
    ELSE IF ~assets[i].name.sidecar \/ ~assets[i].browser_download_url
         THEN SidecarChecksumsUntilMissing(assets, i + 1, checksums)
    ELSE IF fetch_sha256(assets[i].responses) = 0
         THEN checksums
    ELSE SidecarChecksumsUntilMissing(assets, i + 1,
             DictSet(checksums,
                     [assets[i].name EXCEPT !.sidecar = FALSE],
                     fetch_sha256(assets[i].responses)))

\* Lines 153-164: the digests of the .sha256 assets, from asset i on.
RECURSIVE SidecarChecksums(_, _, _)
SidecarChecksums(assets, i, checksums) ==
    IF i > Len(assets) THEN checksums
    ELSE IF ~assets[i].name.sidecar
         THEN SidecarChecksums(assets, i + 1, checksums)
    ELSE IF ~assets[i].browser_download_url
         THEN SidecarChecksums(assets, i + 1, checksums)
    ELSE IF fetch_sha256(assets[i].responses) = 0
         THEN SidecarChecksums(assets, i + 1, checksums)
    ELSE SidecarChecksums(assets, i + 1,
             DictSet(checksums,
                     [assets[i].name EXCEPT !.sidecar = FALSE],
                     fetch_sha256(assets[i].responses)))

\* fetch_release_checksums (lines 132-166).
fetch_release_checksums(release) ==
    IF DOMAIN BundledChecksums(release.assets, 1) # {}
    THEN BundledChecksums(release.assets, 1)
    ELSE SidecarChecksums(release.assets, 1, EmptyDict)

\* Lines 143-151: the requests of the first loop, from asset i on: one
\* (without retry) per SHA256SUMS asset with a URL, up to the one whose
\* parse is returned.
RECURSIVE BundledRequests(_, _)
BundledRequests(assets, i) ==
    IF i > Len(assets) THEN <<>>
    ELSE IF assets[i].name # Sha256SumsName \/ ~assets[i].browser_download_url
         THEN BundledRequests(assets, i + 1)
    ELSE IF /\ Answer(assets[i].responses, 1).status_code = 200
            /\ DOMAIN parse_sha256sums(assets[i].sums_text) # {}
         THEN <<Request("SHA256SUMS", assets[i].name, 0)>>
         ELSE <<Request("SHA256SUMS", assets[i].name, 0)>>
              \o BundledRequests(assets, i + 1)

\* Lines 154-164: the requests of the second loop, from asset i on.
RECURSIVE SidecarRequests(_, _)
SidecarRequests(assets, i) ==
    IF i > Len(assets) THEN <<>>
    ELSE IF ~assets[i].name.sidecar \/ ~assets[i].browser_download_url
         THEN SidecarRequests(assets, i + 1)
         ELSE FetchLog(assets[i].name, assets[i].responses, 1)
              \o SidecarRequests(assets, i + 1)

\* The requests of fetch_release_checksums.
ChecksumRequests(release) ==
    IF DOMAIN BundledChecksums(release.assets, 1) # {}
    THEN BundledRequests(release.assets, 1)
    ELSE BundledRequests(release.assets, 1) \o SidecarRequests(release.assets, 1)

----------------------------------------------------------------------------
\* backfill-versions.py: the filename parsers and the release normalizer.

\* A release of the upstream listing; published_at 0 stands for "" or null.
Release(tag_name, published_at, prerelease, draft, assets) ==
    [tag_name |-> tag_name, published_at |-> published_at,
     prerelease |-> prerelease, draft |-> draft, assets |-> assets]

\* The cutoff argument: None, or a time.
NoCutoff == [set |-> FALSE, at |-> 0]
CutoffAt(t) == [set |-> TRUE, at |-> t]

\* A test that also takes the cutoff time itself as before the cutoff.
BeforeOrAtCutoff(published_at, cutoff) ==
    cutoff.set /\ published_at # 0 /\ published_at <= cutoff.at

\* parse_github_datetime (lines 87-94) gives None for "" and the time
\* otherwise; the tests at lines 242 and 338.
BeforeCutoff(published_at, cutoff) ==
    cutoff.set /\ published_at # 0 /\ published_at < cutoff.at

\* extract_platform_from_filename (lines 77-84): the stem of
\* "{project_name}-{stem}.tar.gz" or "{project_name}-{stem}.zip", or 0 for
\* None; "(.+?)" needs a non-empty stem.
extract_platform_from_filename(filename) ==
    IF /\ filename.prefix = 1
       /\ ~filename.sidecar
       /\ filename.ext \in {"tar.gz", "zip"}
    THEN filename.stem
    ELSE 0

\* "+".join(parts), from part i on.
RECURSIVE JoinPlus(_, _)
JoinPlus(parts, i) ==
    IF i > Len(parts) THEN ""
    ELSE IF i = Len(parts) THEN parts[i]
    ELSE parts[i] \o "+" \o JoinPlus(parts, i + 1)

\* f"{python_version}+{build_version}" as one number with the same order.
CompositeVersion(ver, date) == ver * 10 + date

\* The words of the file names, in lexicographic order, and the character
\* classes of PBS_FILENAME_RE that each word is made of.
Words ==
    <<"aarch64", "apple", "darwin", "debug", "full", "gnu", "install_only",
      "linux", "lto", "pgo", "unknown", "x86_64">>
WordRank(word) == CHOOSE i \in DOMAIN Words : Words[i] = word

\* [a-z\d]+
LowerAlnum ==
    {"aarch64", "apple", "darwin", "debug", "full", "gnu", "linux", "lto",
     "pgo", "unknown"}
\* [a-z\d_]+
LowerAlnumUnderscore == LowerAlnum \cup {"x86_64", "install_only"}
\* [a-z_]+
LowerUnderscore ==
    {"apple", "darwin", "debug", "full", "gnu", "install_only", "linux",
     "lto", "pgo", "unknown"}

\* A token matches a character class when it is one word of the class (a
\* "+" is in none of the classes, and each class needs a character).
TokenIn(token, class) == Len(token) = 1 /\ token[1] \in class

\* The triple "a-b-c" or "a-b-c-d" as one number with the order of the
\* strings.
TokenRank(tokens, i) ==
    IF i <= Len(tokens) THEN WordRank(tokens[i][1]) ELSE 0

TripleCode(tokens) ==
    ((TokenRank(tokens, 1) * (Len(Words) + 1) + TokenRank(tokens, 2))
         * (Len(Words) + 1) + TokenRank(tokens, 3))
        * (Len(Words) + 1) + TokenRank(tokens, 4)

\* The parts between "+" signs of the tokens joined by "-", from token i
\* on: the last part of a token and the first of the next are one part.
RECURSIVE DashJoinParts(_, _, _)
DashJoinParts(tokens, i, parts) ==
    IF i > Len(tokens) THEN parts
    ELSE LET token == IF tokens[i] = <<>> THEN <<"">> ELSE tokens[i]
         IN  IF parts = <<>>
             THEN DashJoinParts(tokens, i + 1, token)
             ELSE DashJoinParts(tokens, i + 1,
                      SubSeq(parts, 1, Len(parts) - 1)
                      \o <<parts[Len(parts)] \o "-" \o token[1]>>
                      \o SubSeq(token, 2, Len(token)))

\* The group "triple" of PBS_FILENAME_RE (line 56) matches the first k
\* tokens of the tail: [a-z\d_]+ - [a-z\d]+ (- [a-z\d]+)? - [a-z\d_]+, the
\* last not "debug" before a dash, and a dash after it.
TripleMatches(tail, k) ==
    /\ Len(tail) >= k + 1
    /\ TokenIn(tail[1], LowerAlnumUnderscore)
    /\ \A i \in 2..(k - 1) : TokenIn(tail[i], LowerAlnum)
    /\ TokenIn(tail[k], LowerAlnumUnderscore)
    /\ tail[k] # <<"debug">>

\* Lines 57-58: after the triple and its dash, "(?:(?P<build_options>.+)-)?"
\* takes everything up to the last dash, when there is one and something
\* stands before it, and "(?P<flavor>[a-z_]+)?" the rest, which is empty
\* or made of [a-z_].
RestMatches(tail, k) ==
    LET flavor == tail[Len(tail)]
    IN  /\ flavor = <<>> \/ TokenIn(flavor, LowerUnderscore)
        /\ Len(tail) >= k + 2 =>
               ~(Len(tail) = k + 2 /\ tail[k + 1] = <<>>)

\* The match of PBS_FILENAME_RE with a triple of k tokens.
PbsGroupsOf(filename, k) ==
    [triple |-> SubSeq(filename.tail, 1, k),
     build_options |-> DashJoinParts(SubSeq(filename.tail, k + 1,
                                            Len(filename.tail) - 1), 1, <<>>),
     flavor |-> IF filename.tail[Len(filename.tail)] = <<>>
                THEN ""
                ELSE filename.tail[Len(filename.tail)][1],
     ver |-> filename.ver,
     date |-> filename.date]

\* PBS_FILENAME_RE.match(filename) (lines 50-62, 171): the groups, or
\* Raised for None.  The optional third token of the triple is tried
\* first, "(?>-[a-z\d]+)?" being greedy.
PbsMatch(filename) ==
    IF \/ filename.prefix # 2
       \/ filename.sidecar
       \/ filename.ver = 0
       \/ filename.date = 0
       \/ filename.ext \notin {"tar.gz", "tar.zst"}
    THEN Raised
    ELSE IF TripleMatches(filename.tail, 4) /\ RestMatches(filename.tail, 4)
    THEN Returned(PbsGroupsOf(filename, 4))
    ELSE IF TripleMatches(filename.tail, 3) /\ RestMatches(filename.tail, 3)
    THEN Returned(PbsGroupsOf(filename, 3))
    ELSE Raised

\* Lines 179-184: the variant made of the groups build_options and flavor.
VariantOf(build_options, flavor) ==
    JoinPlus(build_options \o (IF flavor # "" THEN <<flavor>> ELSE <<>>), 1)

\* parse_pbs_asset_filename (lines 169-186): [triple, variant, version].
parse_pbs_asset_filename(filename) ==
    IF ~PbsMatch(filename).ok THEN Raised
    ELSE LET match == PbsMatch(filename).value
         IN  Returned(
                 [triple |-> TripleCode(match.triple),
                  variant |-> VariantOf(match.build_options, match.flavor),
                  version |-> CompositeVersion(match.ver, match.date)])

\* Lines 349-379 of process_release: the artifacts of the general branch,
\* from asset i on.
RECURSIVE ReleaseArtifacts(_, _, _, _)
ReleaseArtifacts(assets, checksums, i, artifacts) ==
    IF i > Len(assets) THEN artifacts
    ELSE LET name == assets[i].name
         IN  IF name.prefix # 1 \/ name.sidecar \/ name.ext \notin {"tar.gz", "zip"}
             THEN ReleaseArtifacts(assets, checksums, i + 1, artifacts)
             ELSE IF extract_platform_from_filename(name) = 0
             THEN ReleaseArtifacts(assets, checksums, i + 1, artifacts)
             ELSE IF DictGet(checksums, name) = 0
             THEN ReleaseArtifacts(assets, checksums, i + 1, artifacts)
             ELSE ReleaseArtifacts(assets, checksums, i + 1,
                      Append(artifacts,
                             Artifact(extract_platform_from_filename(name),
                                      "default",
                                      IF assets[i].browser_download_url
                                      THEN name ELSE NoUrl,
                                      get_archive_format(name),
                                      DictGet(checksums, name))))

\* A grouping that opens a group for every artifact.
AddToNewGroup(groups, version, artifact) ==
    Append(groups, [version |-> version, artifacts |-> <<artifact>>])

\* artifacts_by_version.setdefault(version, []).append(artifact): groups is
\* the dict in insertion order.
AddToGroup(groups, version, artifact) ==
    IF \E g \in DOMAIN groups : groups[g].version = version
    THEN [g \in DOMAIN groups |->
             IF groups[g].version = version
             THEN [groups[g] EXCEPT !.artifacts = Append(@, artifact)]
             ELSE groups[g]]
    ELSE Append(groups, [version |-> version, artifacts |-> <<artifact>>])

\* Lines 266-296 of process_pbs_release: the artifacts grouped by version,
\* from asset i on.
RECURSIVE PbsGroups(_, _, _, _)
PbsGroups(assets, checksums, i, groups) ==
    IF i > Len(assets) THEN groups
    ELSE LET name == assets[i].name
             parsed == parse_pbs_asset_filename(name)
         IN  IF name = Sha256SumsName
             THEN PbsGroups(assets, checksums, i + 1, groups)
             ELSE IF name.prefix # 2 \/ name.sidecar
                     \/ name.ext \notin {"tar.gz", "tar.zst"}
             THEN PbsGroups(assets, checksums, i + 1, groups)
             ELSE IF ~parsed.ok
             THEN PbsGroups(assets, checksums, i + 1, groups)
             ELSE IF ~assets[i].browser_download_url
             THEN PbsGroups(assets, checksums, i + 1, groups)
             ELSE IF DictGet(checksums, name) = 0
             THEN PbsGroups(assets, checksums, i + 1, groups)
             ELSE PbsGroups(assets, checksums, i + 1,
                      AddToGroup(groups, parsed.value.version,
                                 Artifact(parsed.value.triple,
                                          parsed.value.variant,
                                          name,
                                          get_archive_format(name),
                                          DictGet(checksums, name))))

\* process_pbs_release (lines 255-313).
process_pbs_release(release, published_at) ==
    IF release.assets = <<>> THEN <<>>
    ELSE LET groups == PbsGroups(release.assets,
                                 fetch_release_checksums(release), 1, <<>>)
         IN  SortVersionsDescending(
                 [g \in DOMAIN groups |->
                     Version(groups[g].version, published_at,
                             SortArtifacts(groups[g].artifacts))])

\* A normalizer without the test of the flags prerelease and draft.
process_release_flagged(release, pbs, cutoff) ==
    IF release.tag_name = 0 \/ release.published_at = 0 THEN <<>>
    ELSE IF BeforeCutoff(release.published_at, cutoff) THEN <<>>
    ELSE IF pbs THEN process_pbs_release(release, release.published_at)
    ELSE LET artifacts == ReleaseArtifacts(release.assets,
                                           fetch_release_checksums(release),
                                           1, <<>>)
         IN  IF artifacts = <<>> THEN <<>>
             ELSE <<Version(release.tag_name, release.published_at,
                            SortArtifacts(artifacts))>>

\* process_release (lines 316-394); pbs is project_name ==
\* "python-build-standalone".
process_release(release, pbs, cutoff) ==
    IF release.prerelease \/ release.draft THEN <<>>
    ELSE IF release.tag_name = 0 \/ release.published_at = 0 THEN <<>>
    ELSE IF BeforeCutoff(release.published_at, cutoff) THEN <<>>
    ELSE IF pbs THEN process_pbs_release(release, release.published_at)
    ELSE LET artifacts == ReleaseArtifacts(release.assets,
                                           fetch_release_checksums(release),
                                           1, <<>>)
         IN  IF artifacts = <<>> THEN <<>>
             ELSE <<Version(release.tag_name, release.published_at,
                            SortArtifacts(artifacts))>>

\* The requests of process_release: those of fetch_release_checksums
\* (lines 263, 345), when the release gets that far.
ReleaseRequests(release, pbs, cutoff) ==
    IF release.prerelease \/ release.draft THEN <<>>
    ELSE IF release.tag_name = 0 \/ release.published_at = 0 THEN <<>>
    ELSE IF BeforeCutoff(release.published_at, cutoff) THEN <<>>
    ELSE IF pbs /\ release.assets = <<>> THEN <<>>
    ELSE ChecksumRequests(release)

----------------------------------------------------------------------------
\* backfill-versions.py: the release paginator and main.

\* The most pages a generated listing has.
MaxPages == 2

\* timedelta(days=90) (line 444); the clock counts units of 90 days.
CutoffAge == 1

\* A page of the release listing: the status codes served for its request,
\* attempt after attempt, and the releases of the 200 response.
Page(responses, data) == [responses |-> responses, data |-> data]

\* A page past the end of the listing is served empty.
PageAt(pages, page) ==
    IF page <= Len(pages) THEN pages[page] ELSE Page(<<Response(200, 0)>>, <<>>)

\* A page fetch that never raises.
PageFetchedAnyway(responses, attempt) == TRUE

\* Lines 215-225: TRUE when the page is fetched, FALSE when
\* raise_for_status raises.
RECURSIVE PageFetched(_, _)
PageFetched(responses, attempt) ==
    LET response == Answer(responses, attempt)
    IN  IF response.status_code \in {502, 503, 504} /\ attempt < 3
        THEN PageFetched(responses, attempt + 1)
        ELSE response.status_code < 400

\* A loop that leaves a page at its first release older than the cutoff.
RECURSIVE PaginateStoppingAtStale(_, _, _, _)
PaginateStoppingAtStale(pages, page, cutoff, releases) ==
    LET data == PageAt(pages, page).data
        stale == {k \in DOMAIN data : BeforeCutoff(data[k].published_at, cutoff)}
        first == IF stale = {} THEN Len(data) + 1
                 ELSE CHOOSE k \in stale : \A j \in stale : k <= j
    IN  IF ~PageFetched(PageAt(pages, page).responses, 1) THEN Raised
        ELSE IF data = <<>> THEN Returned(releases)
        ELSE IF stale # {} THEN Returned(releases \o SubSeq(data, 1, first - 1))
        ELSE PaginateStoppingAtStale(pages, page + 1, cutoff, releases \o data)

\* Lines 212-250: the loop over the pages, from page on.
RECURSIVE Paginate(_, _, _, _)
Paginate(pages, page, cutoff, releases) ==
    LET data == PageAt(pages, page).data
        kept == SelectSeq(data, LAMBDA r : ~BeforeCutoff(r.published_at, cutoff))
        cutoff_reached ==
            \E k \in DOMAIN data : BeforeCutoff(data[k].published_at, cutoff)
    IN  IF ~PageFetched(PageAt(pages, page).responses, 1) THEN Raised
        ELSE IF data = <<>> THEN Returned(releases)
        ELSE IF ~cutoff.set THEN Paginate(pages, page + 1, cutoff, releases \o data)
        ELSE IF cutoff_reached THEN Returned(releases \o kept)
        ELSE Paginate(pages, page + 1, cutoff, releases \o kept)

\* fetch_github_releases (lines 189-252).
fetch_github_releases(pages, cutoff) == Paginate(pages, 1, cutoff, <<>>)

\* Lines 215-225: the requests for one page, one per attempt.
RECURSIVE PageLog(_, _, _)
PageLog(responses, page, attempt) ==
    IF Answer(responses, attempt).status_code \in {502, 503, 504} /\ attempt < 3
    THEN <<Request("releases", FileName(0, 0, "", FALSE), page)>>
         \o PageLog(responses, page, attempt + 1)
    ELSE <<Request("releases", FileName(0, 0, "", FALSE), page)>>

\* The requests of fetch_github_releases, from page on.
RECURSIVE PaginateRequests(_, _, _)
PaginateRequests(pages, page, cutoff) ==
    LET data == PageAt(pages, page).data
        log == PageLog(PageAt(pages, page).responses, page, 1)
    IN  IF ~PageFetched(PageAt(pages, page).responses, 1) THEN log
        ELSE IF data = <<>> THEN log
        ELSE IF cutoff.set
                /\ \E k \in DOMAIN data : BeforeCutoff(data[k].published_at, cutoff)
             THEN log
        ELSE log \o PaginateRequests(pages, page + 1, cutoff)

\* The requests of the loop at lines 455-461, from release i on.
RECURSIVE ProcessRequests(_, _, _, _)
ProcessRequests(releases, pbs, cutoff, i) ==
    IF i > Len(releases) THEN <<>>
    ELSE ReleaseRequests(releases[i], pbs, cutoff)
         \o ProcessRequests(releases, pbs, cutoff, i + 1)

\* Lines 453-461: the versions of the releases, from release i on.
RECURSIVE ProcessReleases(_, _, _, _)
ProcessReleases(releases, pbs, cutoff, i) ==
    IF i > Len(releases) THEN <<>>
    ELSE process_release(releases[i], pbs, cutoff)
         \o ProcessReleases(releases, pbs, cutoff, i + 1)

\* Line 464: versions.sort(key=lambda v: v["date"], reverse=True).
SortByDateDescending(versions) ==
    StableSort(versions, [i \in DOMAIN versions |-> 0 - versions[i].date])

\* Assets of the listings.
Archive(name) == Asset(name, TRUE, NotFound, <<>>)
Sidecar(name, responses) ==
    Asset([name EXCEPT !.sidecar = TRUE], TRUE, responses, <<>>)
Sums(text) == Asset(Sha256SumsName, TRUE, <<Response(200, 0)>>, text)

\* Releases of a project with one version per release.
UvRelease(tag_name, published_at, prerelease) ==
    Release(tag_name, published_at, prerelease, FALSE,
            <<Archive(FileName(1, 2, "zip", FALSE)),
              Archive(FileName(1, 1, "tar.gz", FALSE)),
              Sidecar(FileName(1, 1, "tar.gz", FALSE), RetriedThenFound(5)),
              Sidecar(FileName(1, 2, "zip", FALSE),
                      IF tag_name = 1 THEN Found(6) ELSE NotFound)>>)

\* The tokens of the triples x86_64-unknown-linux-gnu and
\* aarch64-apple-darwin.
Linux == <<<<"x86_64">>, <<"unknown">>, <<"linux">>, <<"gnu">>>>
Darwin == <<<<"aarch64">>, <<"apple">>, <<"darwin">>>>

\* A release of the runtime distribution: two builds of version ver and
\* one of version ver + 1, with a SHA256SUMS that lacks the last.
PbsRelease(tag_name, published_at, ver) ==
    Release(tag_name, published_at, FALSE, FALSE,
            <<Archive(PbsFileName(ver, tag_name, Linux \o <<<<"pgo", "lto">>, <<"full">>>>, "tar.zst")),
              Archive(PbsFileName(ver + 1, tag_name, Linux \o <<<<"full">>>>, "tar.gz")),
              Archive(PbsFileName(ver, tag_name, Linux \o <<<<"debug">>, <<"full">>>>, "tar.gz")),
              Archive(PbsFileName(ver + 1, tag_name, Darwin \o <<<<"install_only">>>>, "tar.gz")),
              Sums(<<SumsLine(2, 7, TRUE, PbsFileName(ver, tag_name, Linux \o <<<<"pgo", "lto">>, <<"full">>>>, "tar.zst")),
                     SumsLine(1, 0, FALSE, NoUrl),
                     SumsLine(2, 8, FALSE, PbsFileName(ver + 1, tag_name, Linux \o <<<<"full">>>>, "tar.gz")),
                     SumsLine(2, 9, FALSE, PbsFileName(ver, tag_name, Linux \o <<<<"debug">>, <<"full">>>>, "tar.gz"))>>)>>)

Ok200 == <<Response(200, 0)>>

\* The upstream listings of the two kinds of project.
Listings(pbs) ==
    IF pbs
    THEN {<<Page(Ok200, <<PbsRelease(2, 2, 1), PbsRelease(1, 1, 1)>>)>>,
          <<Page(Ok200, <<PbsRelease(2, 2, 2)>>),
            Page(<<Response(503, 0), Response(200, 0)>>, <<PbsRelease(1, 1, 1)>>)>>,
          <<Page(<<Response(503, 0)>>, <<PbsRelease(1, 1, 1)>>)>>}
    ELSE {<<Page(Ok200, <<UvRelease(3, 3, TRUE), UvRelease(2, 2, FALSE)>>),
            Page(<<Response(503, 0), Response(200, 0)>>, <<UvRelease(1, 1, FALSE)>>)>>,
          <<Page(Ok200, <<UvRelease(3, 2, FALSE), UvRelease(2, 2, FALSE),
                          UvRelease(1, 1, FALSE)>>)>>,
          <<Page(<<Response(503, 0)>>, <<UvRelease(1, 1, FALSE)>>)>>,
          <<>>}

\* main (lines 397-478): list the releases, normalize them, sort by date,
\* overwrite the file.
Backfill(pages) ==
    LET pbs == project_name = "python-build-standalone"
        cutoff == IF pbs THEN CutoffAt(now - CutoffAge) ELSE NoCutoff
        fetched == fetch_github_releases(pages, cutoff)
        versions == SortByDateDescending(
                        ProcessReleases(fetched.value, pbs, cutoff, 1))
    IN  /\ now <= MaxRuns
        /\ now' = now + 1
        /\ op' = "backfill"
        /\ arg' = pages
        /\ repeated' = (op = "backfill" /\ arg = pages)
        /\ before' = Ledger
        /\ requests' = PaginateRequests(pages, 1, cutoff)
                       \o (IF fetched.ok
                           THEN ProcessRequests(fetched.value, pbs, cutoff, 1)
                           ELSE <<>>)
        /\ IF fetched.ok
           THEN /\ file' = WriteLines(versions)
                /\ batch' = versions
                /\ status' = "ok"
           ELSE /\ status' = "abort"
                /\ batch' = <<>>
                /\ UNCHANGED file
        /\ UNCHANGED <<max_versions, project_name>>
        /\ UNCHANGED invocations

----------------------------------------------------------------------------
\* The program: one project's ledger, starting without a file, under any
\* runs of the two commands.

Init ==
    /\ file = <<>>
    /\ project_name \in {"uv", "python-build-standalone"}
    /\ max_versions = DefaultMaxVersions
    /\ now = 1
    /\ op = "init"
    /\ arg = <<>>
    /\ before = <<>>
    /\ batch = <<>>
    /\ repeated = FALSE
    /\ status = "ok"
    /\ requests = <<>>
    /\ NoInvocations

Next ==
    \/ \E input \in JsonInputs : PublishJson(input[1], input[2])
    \/ \E manifest \in Manifests : PublishCargoDist(manifest)
    \/ \E pages \in Listings(project_name = "python-build-standalone") :
           Backfill(pages)

Spec == Init /\ [][Next]_vars

----------------------------------------------------------------------------
\* Properties of the commands (checked under Spec).

\* C1: no version identifier occurs twice in the ledger.
C1_OneEntryPerVersion ==
    \A i, j \in DOMAIN Ledger :
        i # j => Ledger[i].version # Ledger[j].version

\* C4: no entry of the ledger has an empty artifact list.
C4_NoEmptyArtifacts ==
    \A k \in DOMAIN Ledger : Ledger[k].artifacts # <<>>

\* C7: after a JSON payload with several versions has been published, its
\* versions stand at the front of the ledger in descending version order.
C7_NewestFirstAfterPublish ==
    (op = "publish_json" /\ status = "ok" /\ Len(batch) >= 2) =>
        \A k \in 1..(FrontLen - 1) : Ledger[k].version >= Ledger[k + 1].version

\* C8: an entry of the ledger survives every later command unless a
\* record of the same version came in or the cap was reached.
C8_AppendOnly ==
    (op # "init" /\ status = "ok") =>
        \A k \in DOMAIN before :
            \/ before[k] \in Range(Ledger)
            \/ before[k].version \in IncomingVersions(batch)
            \/ Len(Ledger) >= max_versions

\* C9: the ledger never holds more than max_versions entries.
C9_LedgerWithinCap == Len(Ledger) <= max_versions

\* C10 as stated: a command run again on the same input leaves the file
\* as the first run wrote it.
C10_CommandsIdempotent == (repeated /\ status = "ok") => Ledger = before

\* Every version of the payload carries its date.
AllDated(payload) ==
    \A i \in DOMAIN PayloadEntries(payload) : PayloadEntries(payload)[i].date # 0

\* The two ledgers agree entry by entry on version and artifacts.
SameButDates(l1, l2) ==
    /\ Len(l1) = Len(l2)
    /\ \A k \in DOMAIN l1 :
           /\ l1[k].version = l2[k].version
           /\ l1[k].artifacts = l2[k].artifacts

\* C10 amended: a publish run again on the same input leaves the same
\* versions and artifacts in the same order, and the same content when
\* every version of the payload carries its date; a collect run again on
\* the same listing leaves the same content when no cutoff applies, and
\* otherwise nothing that the first run did not write.
C10_IdempotentButDates ==
    (repeated /\ status = "ok") =>
        /\ op \in {"publish_json", "publish_cargo_dist"} =>
               SameButDates(Ledger, before)
        /\ (op = "publish_json" /\ AllDated(arg[1])) => Ledger = before
        /\ (op = "backfill" /\ project_name # "python-build-standalone") =>
               Ledger = before
        /\ op = "backfill" => Range(Ledger) \subseteq Range(before)

\* C10 witness: a manifest published a second time, with artifacts, whose
\* entry differs from the first run's.
C10_Witness ==
    /\ repeated
    /\ status = "ok"
    /\ op = "publish_cargo_dist"
    /\ Len(Ledger) = Len(before)
    /\ Ledger[1].artifacts # <<>>
    /\ Ledger[1].date # before[1].date

----------------------------------------------------------------------------
\* The functions of the backfill taken alone: each action applies one of
\* them to an input drawn from the sets below and keeps the value it
\* returned in batch and the requests it made in requests.  The file is not
\* touched, and a behaviour holds one call.

\* File names of the runtime distribution: a triple, then no build option
\* or one, then no flavor, an empty one (a dash before the extension) or
\* one.
PbsOptionTokens == {<<>>, <<<<"pgo", "lto">>>>, <<<<"pgo">>>>, <<<<"debug">>>>}
PbsFlavorTokens == {<<>>, <<<<>>>>, <<<<"full">>>>, <<<<"install_only">>>>}

PbsTails ==
    {triple \o options \o flavor :
        triple \in {Linux, Darwin},
        options \in PbsOptionTokens,
        flavor \in PbsFlavorTokens}

PbsNames ==
    {PbsFileName(ver, 1, tail, ext) :
        ver \in 1..2, tail \in PbsTails, ext \in {"tar.gz", "tar.zst"}}
    \cup {FileName(1, 1, "tar.gz", FALSE),
          [PbsFileName(1, 1, Linux \o <<<<"full">>>>, "tar.gz") EXCEPT !.sidecar = TRUE],
          PbsFileName(1, 1, Linux \o <<<<"full">>>>, "zip"),
          PbsFileName(1, 0, Linux \o <<<<"full">>>>, "tar.gz")}

\* What the URL of a sidecar may answer; <<>> stands for no sidecar asset.
SidecarAnswers == {<<>>, Found(5), NotFound, Unavailable, RetriedThenFound(6)}

\* The SHA256SUMS asset of a release, if any: served with both archives
\* listed, with the first only, with no usable line, or not served.
SumsAssets(first, second) ==
    {<<>>,
     <<Sums(<<SumsLine(2, 7, TRUE, first), SumsLine(2, 8, FALSE, second)>>)>>,
     <<Sums(<<SumsLine(1, 0, FALSE, NoUrl), SumsLine(2, 7, FALSE, first)>>)>>,
     <<Sums(<<SumsLine(1, 0, FALSE, NoUrl)>>)>>,
     <<Asset(Sha256SumsName, TRUE, Unavailable,
             <<SumsLine(2, 7, FALSE, first)>>)>>}

\* The assets of a release with two archives, their sidecars and a
\* SHA256SUMS.
TwoArchives(first, second, answers1, answers2, sums) ==
    <<Archive(first)>>
    \o (IF answers1 = <<>> THEN <<>> ELSE <<Sidecar(first, answers1)>>)
    \o sums
    \o <<Archive(second)>>
    \o (IF answers2 = <<>> THEN <<>> ELSE <<Sidecar(second, answers2)>>)

\* Asset lists of a project with one version per release: the second
\* archive is of another platform, or of the same in another format.
GeneralAssetLists ==
    {TwoArchives(FileName(1, 2, "tar.gz", FALSE), second, answers1, answers2, sums) :
        second \in {FileName(1, 1, "zip", FALSE), FileName(1, 2, "zip", FALSE)},
        answers1 \in SidecarAnswers,
        answers2 \in SidecarAnswers,
        sums \in SumsAssets(FileName(1, 2, "tar.gz", FALSE),
                           FileName(1, 1, "zip", FALSE))}

\* Asset lists of the runtime distribution.
PbsArchiveNames ==
    {PbsFileName(1, 1, Linux \o <<<<"pgo", "lto">>, <<"full">>>>, "tar.zst"),
     PbsFileName(1, 1, Linux \o <<<<"pgo", "lto">>, <<"full">>>>, "tar.gz"),
     PbsFileName(2, 1, Linux \o <<<<"install_only">>>>, "tar.gz"),
     PbsFileName(1, 1, Darwin \o <<<<"pgo">>, <<"full">>>>, "tar.zst"),
     PbsFileName(1, 1, Darwin, "tar.gz")}

PbsAssetLists ==
    UNION {{TwoArchives(first, second, answers1, answers2, sums) :
               answers1 \in {<<>>, Found(5), NotFound},
               answers2 \in {<<>>, Found(6), Unavailable},
               sums \in SumsAssets(first, second)} :
           first \in PbsArchiveNames, second \in PbsArchiveNames}

\* The flags, tag and publish time of the releases.
ReleaseHeads ==
    {Release(tag_name, published_at, prerelease, draft, <<>>) :
        tag_name \in {1}, published_at \in {1, 2},
        prerelease \in BOOLEAN, draft \in BOOLEAN}
    \cup {Release(0, 2, FALSE, FALSE, <<>>), Release(1, 0, FALSE, FALSE, <<>>)}

\* Assets that give a version when the release is taken.
ValidAssets(pbs) ==
    IF pbs
    THEN TwoArchives(PbsFileName(1, 1, Linux \o <<<<"full">>>>, "tar.gz"),
                     PbsFileName(2, 1, Darwin \o <<<<"full">>>>, "tar.gz"),
                     Found(5), Found(6), <<>>)
    ELSE TwoArchives(FileName(1, 2, "tar.gz", FALSE), FileName(1, 1, "zip", FALSE),
                     Found(5), Found(6), <<>>)

\* The releases: every asset list under the plain head, and every head
\* with the valid assets and with none.
Releases(pbs) ==
    {Release(1, 2, FALSE, FALSE, assets) :
        assets \in IF pbs THEN PbsAssetLists ELSE GeneralAssetLists}
    \cup {[head EXCEPT !.assets = ValidAssets(pbs)] : head \in ReleaseHeads}
    \cup ReleaseHeads

Cutoffs == {NoCutoff, CutoffAt(2)}

\* parse_pbs_asset_filename(name).
ParsePbsName(filename) ==
    /\ op = "init"
    /\ op' = "parse_pbs_asset_filename"
    /\ arg' = filename
    /\ batch' = parse_pbs_asset_filename(filename)
    /\ requests' = <<>>
    /\ status' = "ok"
    /\ UNCHANGED <<file, project_name, max_versions, now, before, repeated>>
    /\ UNCHANGED invocations

\* fetch_release_checksums(release, client).
Resolve(release) ==
    /\ op = "init"
    /\ op' = "fetch_release_checksums"
    /\ arg' = release
    /\ batch' = fetch_release_checksums(release)
    /\ requests' = ChecksumRequests(release)
    /\ status' = "ok"
    /\ UNCHANGED <<file, project_name, max_versions, now, before, repeated>>
    /\ UNCHANGED invocations

\* process_release(release, project_name, org, repo, client, cutoff).
Normalize(release, cutoff) ==
    LET pbs == project_name = "python-build-standalone"
    IN  /\ op = "init"
        /\ op' = "process_release"
        /\ arg' = <<release, cutoff>>
        /\ batch' = process_release(release, pbs, cutoff)
        /\ requests' = ReleaseRequests(release, pbs, cutoff)
        /\ status' = "ok"
        /\ UNCHANGED <<file, project_name, max_versions, now, before, repeated>>
        /\ UNCHANGED invocations

\* extract_version_info(manifest, client).
ExtractVersionInfo(manifest) ==
    /\ op = "init"
    /\ op' = "extract_version_info"
    /\ arg' = manifest
    /\ batch' = extract_version_info(manifest, now)
    /\ requests' = IF manifest.releases # <<>>
                   THEN ManifestRequests(manifest.releases[1].artifacts, 1)
                   ELSE <<>>
    /\ status' = IF manifest.releases # <<>> THEN "ok" ELSE "abort"
    /\ UNCHANGED <<file, project_name, max_versions, now, before, repeated>>
    /\ UNCHANGED invocations

\* Manifests whose release lists two archives, an installer script and a
\* sidecar, with every answer of the two .sha256 URLs.
ResolvedManifests ==
    {[json |-> TRUE, announcement_tag |-> 1,
      releases |-> <<[app_name |-> 1, artifacts |->
          <<[name |-> FileName(1, 2, "tar.gz", FALSE), responses |-> answers1],
            [name |-> FileName(1, 2, "tar.gz", TRUE), responses |-> NotFound],
            [name |-> FileName(1, 0, "sh", FALSE), responses |-> NotFound],
            [name |-> FileName(1, 1, "zip", FALSE), responses |-> answers2]>>]>>] :
        answers1 \in SidecarAnswers \ {<<>>},
        answers2 \in SidecarAnswers \ {<<>>}}
    \cup Manifests

\* The listings of the paginator: up to MaxPages pages of up to two
\* releases, each release with its own tag and published at 1, 2 or 3, or
\* without a date; the pages after the last are served empty.
PageDates == SeqUpTo({0, 1, 2, 3}, 2)

DatedPages ==
    {[p \in DOMAIN dates |->
         Page(Ok200,
              [k \in DOMAIN dates[p] |->
                  Release(2 * p + k - 2, dates[p][k], FALSE, FALSE, <<>>)])] :
        dates \in SeqUpTo(PageDates, MaxPages)}

\* fetch_github_releases(org, repo, cutoff=cutoff).
ListReleases(pages, cutoff) ==
    /\ op = "init"
    /\ op' = "fetch_github_releases"
    /\ arg' = <<pages, cutoff>>
    /\ batch' = fetch_github_releases(pages, cutoff)
    /\ requests' = PaginateRequests(pages, 1, cutoff)
    /\ status' = IF fetch_github_releases(pages, cutoff).ok THEN "ok" ELSE "abort"
    /\ UNCHANGED <<file, project_name, max_versions, now, before, repeated>>
    /\ UNCHANGED invocations

\* What a .sha256 URL may answer, attempt after attempt (the last answer
\* is repeated): a digest, not found, a server error that is not retried,
\* or one of the retried ones.
SidecarResponses ==
    {Response(200, 5), Response(404, 0), Response(500, 0),
     Response(502, 0), Response(503, 0), Response(504, 0)}

ResponseScripts == SeqUpTo(SidecarResponses, 3) \ {<<>>}

\* fetch_sha256(client, url) / fetch_sha256_file(client, url).
FetchDigest(responses) ==
    /\ op = "init"
    /\ op' = "fetch_sha256"
    /\ arg' = responses
    /\ batch' = fetch_sha256(responses)
    /\ requests' = FetchLog(FileName(1, 1, "tar.gz", TRUE), responses, 1)
    /\ status' = "ok"
    /\ UNCHANGED <<file, project_name, max_versions, now, before, repeated>>
    /\ UNCHANGED invocations

NormalizerNext ==
    \/ op = "init" /\ \E responses \in ResponseScripts : FetchDigest(responses)
    \/ op = "init" /\ \E pages \in DatedPages, cutoff \in Cutoffs :
                         ListReleases(pages, cutoff)
    \/ op = "init" /\ \E filename \in PbsNames : ParsePbsName(filename)
    \/ op = "init" /\ \E release \in Releases(project_name = "python-build-standalone") :
                         Resolve(release)
    \/ op = "init" /\ \E release \in Releases(project_name = "python-build-standalone"),
                        cutoff \in Cutoffs : Normalize(release, cutoff)
    \/ op = "init" /\ \E manifest \in ResolvedManifests : ExtractVersionInfo(manifest)

NormalizerSpec == Init /\ [][NormalizerNext]_vars

----------------------------------------------------------------------------
\* Properties of the resolver, the parser and the normalizer (checked under
\* NormalizerSpec).

\* The artifacts of the versions the call returned.
EmittedArtifacts ==
    IF op = "extract_version_info"
    THEN IF batch.ok THEN Range(batch.value.artifacts) ELSE {}
    ELSE IF op = "process_release"
    THEN UNION {Range(batch[i].artifacts) : i \in DOMAIN batch}
    ELSE {}

\* The release passes the tests of lines 326-339.
Taken(release, cutoff) ==
    /\ ~release.prerelease
    /\ ~release.draft
    /\ release.tag_name # 0
    /\ release.published_at # 0
    /\ ~(cutoff.set /\ release.published_at < cutoff.at)

\* No SHA256SUMS asset is served with a line of two fields.
NoBundledDigests(assets) ==
    ~\E i \in DOMAIN assets :
        /\ assets[i].name = Sha256SumsName
        /\ assets[i].responses[1].status_code = 200
        /\ \E l \in DOMAIN assets[i].sums_text : assets[i].sums_text[l].fields = 2

\* The answers of the one sidecar of the asset called name; <<>> when it
\* has none or several.
SidecarOf(assets, name) ==
    LET S == {j \in DOMAIN assets : assets[j].name = [name EXCEPT !.sidecar = TRUE]}
    IN  IF Cardinality(S) = 1 THEN assets[CHOOSE j \in S : TRUE].responses ELSE <<>>

\* The asset is an archive the branch of the project accepts.
Qualifies(name, pbs) ==
    IF pbs
    THEN name.prefix = 2 /\ ~name.sidecar /\ parse_pbs_asset_filename(name).ok
    ELSE name.prefix = 1 /\ ~name.sidecar /\ name.ext \in {"tar.gz", "zip"}

\* The emitted artifacts for one file, against the answers of its sidecar:
\* none after a 404; one, with the digest served, after a 200 or after a
\* 503 and a 200.
DroppedOrKept(name, answers) ==
    LET emitted == {a \in EmittedArtifacts : a.url = name}
    IN  /\ answers = NotFound => emitted = {}
        /\ \A digest \in 5..6 :
               answers \in {Found(digest), RetriedThenFound(digest)} =>
                   /\ emitted # {}
                   /\ \A a \in emitted : a.sha256 = digest

\* C13: in a release whose digests come from the per-file sidecars, an
\* artifact whose sidecar answers not-found is absent from the emitted
\* Version, and every other qualifying artifact whose sidecar gives a digest
\* is present with its own digest; the same holds for the artifacts of a
\* manifest.
C13_NotFoundDropsThatArtifact ==
    /\ (/\ op = "process_release"
        /\ Taken(arg[1], arg[2])
        /\ NoBundledDigests(arg[1].assets)) =>
           \A i \in DOMAIN arg[1].assets :
               Qualifies(arg[1].assets[i].name,
                         project_name = "python-build-standalone") =>
                   DroppedOrKept(arg[1].assets[i].name,
                                 SidecarOf(arg[1].assets, arg[1].assets[i].name))
    /\ (op = "extract_version_info" /\ status = "ok") =>
           \A i \in DOMAIN arg.releases[1].artifacts :
               LET entry == arg.releases[1].artifacts[i]
               IN  (/\ entry.name.prefix = 1
                    /\ ~entry.name.sidecar
                    /\ entry.name.ext \in {"tar.gz", "zip"}) =>
                       DroppedOrKept(entry.name, entry.responses)

\* A release with two archives whose first sidecar answers not-found and
\* whose second gives a digest: one Version with the second archive alone.
C13_Witness ==
    /\ op = "process_release"
    /\ project_name = "uv"
    /\ Taken(arg[1], arg[2])
    /\ NoBundledDigests(arg[1].assets)
    /\ SidecarOf(arg[1].assets, FileName(1, 2, "tar.gz", FALSE)) = NotFound
    /\ SidecarOf(arg[1].assets, FileName(1, 1, "zip", FALSE)) = Found(5)
    /\ Len(batch) = 1
    /\ Len(batch[1].artifacts) = 1
    /\ batch[1].artifacts[1].url = FileName(1, 1, "zip", FALSE)
    /\ batch[1].artifacts[1].sha256 = 5

\* C15: a release flagged pre-release or draft yields zero Versions from
\* process_release, whatever its assets, tag, date and the cutoff are, and
\* no request is made for it.
C15_FlaggedReleaseYieldsNothing ==
    (op = "process_release" /\ (arg[1].prerelease \/ arg[1].draft)) =>
        batch = <<>> /\ requests = <<>>

\* A pre-release with a tag, a date after the cutoff and two archives with
\* digests has been normalized.
C15_Witness ==
    /\ op = "process_release"
    /\ arg[1].prerelease
    /\ ~arg[1].draft
    /\ arg[1].tag_name # 0
    /\ arg[1].published_at = 2
    /\ arg[1].assets = ValidAssets(project_name = "python-build-standalone")
    /\ batch = <<>>

\* C16: within every Version process_release emits, in either branch, no
\* two artifacts have the same (platform, variant) pair.
C16_PlatformVariantUnique ==
    op = "process_release" =>
        \A v \in DOMAIN batch :
            \A i, j \in DOMAIN batch[v].artifacts :
                (/\ batch[v].artifacts[i].platform = batch[v].artifacts[j].platform
                 /\ batch[v].artifacts[i].variant = batch[v].artifacts[j].variant)
                    => i = j

\* The parts of a name made of a triple, a block of build options and a
\* flavor, the last two optional: what the parser is to return for it.
Composed(filename, triple, options, flavor) ==
    /\ filename.prefix = 2
    /\ ~filename.sidecar
    /\ filename.tail = triple \o options \o flavor
    /\ triple \in {Linux, Darwin}
    /\ options \in PbsOptionTokens
    /\ flavor \in {<<>>, <<<<"full">>>>, <<<<"install_only">>>>}

Expected(filename, triple, options, flavor) ==
    [triple |-> TripleCode(triple),
     variant |-> JoinPlus((IF options = <<>> THEN <<>> ELSE options[1])
                          \o (IF flavor = <<>> THEN <<>> ELSE flavor[1]), 1),
     version |-> CompositeVersion(filename.ver, filename.date)]

\* The name cpython-{ver}+{date}-x86_64-unknown-linux-gnu-pgo+lto-full.tar.zst.
ScenarioName(filename) ==
    /\ filename.prefix = 2
    /\ ~filename.sidecar
    /\ filename.ver # 0
    /\ filename.date # 0
    /\ filename.tail = Linux \o <<<<"pgo", "lto">>, <<"full">>>>
    /\ filename.ext = "tar.zst"

\* The scenario: that name gives its triple, the variant pgo+lto+full and
\* the version "{ver}+{date}".
ScenarioParsed ==
    (op = "parse_pbs_asset_filename" /\ ScenarioName(arg)) =>
        /\ batch.ok
        /\ batch.value.triple = TripleCode(Linux)
        /\ batch.value.variant = "pgo+lto+full"
        /\ batch.value.version = CompositeVersion(arg.ver, arg.date)

\* C18: for a file name the pattern matches, made of a triple, build
\* options and a flavor, parse_pbs_asset_filename returns the triple as the
\* platform, the build options in order then the flavor joined by "+" as
\* the variant ("" when there is neither) and "{ver}+{date}" as the
\* version; the name ending in x86_64-unknown-linux-gnu-pgo+lto-full.tar.zst
\* gives that triple and the variant pgo+lto+full.
C18_ParsesTripleVariantVersion ==
    op = "parse_pbs_asset_filename" =>
        /\ batch.ok =>
               \A triple \in {Linux, Darwin}, options \in PbsOptionTokens,
                  flavor \in PbsFlavorTokens :
                   Composed(arg, triple, options, flavor) =>
                       batch.value = Expected(arg, triple, options, flavor)
        /\ ScenarioParsed

\* The SHA256SUMS assets that are served with status 200 and have a line
\* of two fields.
BundledOk(assets) ==
    {i \in DOMAIN assets :
        /\ assets[i].name = Sha256SumsName
        /\ assets[i].browser_download_url
        /\ assets[i].responses[1].status_code = 200
        /\ \E l \in DOMAIN assets[i].sums_text : assets[i].sums_text[l].fields = 2}

\* The mapping a SHA256SUMS text stands for: each file named on a line of
\* two fields, with the checksum of the last such line.
MappingOf(text) ==
    LET named(f) == {l \in DOMAIN text : text[l].fields = 2 /\ text[l].filename = f}
        files == {text[l].filename : l \in {k \in DOMAIN text : text[k].fields = 2}}
    IN  [f \in files |->
            text[CHOOSE l \in named(f) : \A k \in named(f) : k <= l].checksum]

\* C20: when a release has a SHA256SUMS asset that is fetched with success
\* and parses to at least one entry, fetch_release_checksums returns exactly
\* the mapping of that file and requests no sidecar.
C20_BundledManifestFirst ==
    (op = "fetch_release_checksums" /\ BundledOk(arg.assets) # {}) =>
        /\ \E i \in BundledOk(arg.assets) :
               /\ \A k \in BundledOk(arg.assets) : i <= k
               /\ batch = MappingOf(arg.assets[i].sums_text)
        /\ \A r \in DOMAIN requests : requests[r].kind # "sha256"

\* A release with a usable SHA256SUMS and a sidecar that would give another
\* digest for a file the manifest lists: the manifest's digest is returned.
C20_Witness ==
    /\ op = "fetch_release_checksums"
    /\ BundledOk(arg.assets) # {}
    /\ \E i \in DOMAIN arg.assets :
           /\ arg.assets[i].name.sidecar
           /\ arg.assets[i].browser_download_url
           /\ arg.assets[i].responses = Found(5)
           /\ [arg.assets[i].name EXCEPT !.sidecar = FALSE] \in DOMAIN batch
           /\ batch[[arg.assets[i].name EXCEPT !.sidecar = FALSE]] = 7
    /\ Len(requests) = 1
    /\ requests[1].kind = "SHA256SUMS"

\* The pages the paginator asked for.
RequestedPages == {requests[r].page : r \in DOMAIN requests}

\* The release is older than the cutoff of the call.
Stale(release) ==
    release.published_at # 0 /\ release.published_at < arg[2].at

\* C17: with a cutoff, fetch_github_releases returns no release published
\* before the cutoff; every release of a page it asked for that is not
\* older than the cutoff is returned, also after an older one on the same
\* page; and no page is asked after a page that held an older release.
C17_CutoffStopsAfterThePage ==
    (op = "fetch_github_releases" /\ arg[2].set) =>
        /\ batch.ok
        /\ \A i \in DOMAIN batch.value : ~Stale(batch.value[i])
        /\ \A p \in RequestedPages :
               \A k \in DOMAIN PageAt(arg[1], p).data :
                   ~Stale(PageAt(arg[1], p).data[k]) =>
                       PageAt(arg[1], p).data[k] \in Range(batch.value)
        /\ \A p \in RequestedPages :
               (\E k \in DOMAIN PageAt(arg[1], p).data :
                    Stale(PageAt(arg[1], p).data[k])) =>
                   \A q \in RequestedPages : q <= p

\* A first page with an older release followed by a newer one, and a
\* second page with a release: the newer one alone is returned and the
\* second page is not asked for.
C17_Witness ==
    /\ op = "fetch_github_releases"
    /\ arg[2] = CutoffAt(2)
    /\ Len(arg[1]) = 2
    /\ Len(arg[1][1].data) = 2
    /\ arg[1][1].data[1].published_at = 1
    /\ arg[1][1].data[2].published_at = 3
    /\ arg[1][2].data # <<>>
    /\ batch.ok
    /\ batch.value = <<arg[1][1].data[2]>>
    /\ RequestedPages = {1}

----------------------------------------------------------------------------
\* The collect command under upstream failures: listings of two releases,
\* on one page or two, whose pages and sidecars answer 503.

Retried == <<Response(503, 0), Response(503, 0), Response(200, 0)>>
PageAnswers == {Ok200, Retried, Unavailable}

\* The first release: two archives with a sidecar each, and no SHA256SUMS.
FailingRelease(pbs, answers1, answers2) ==
    Release(2, 3, FALSE, FALSE,
            IF pbs
            THEN TwoArchives(PbsFileName(1, 2, Linux \o <<<<"full">>>>, "tar.gz"),
                             PbsFileName(1, 2, Darwin \o <<<<"full">>>>, "tar.gz"),
                             answers1, answers2, <<>>)
            ELSE TwoArchives(FileName(1, 1, "tar.gz", FALSE),
                             FileName(1, 2, "zip", FALSE),
                             answers1, answers2, <<>>))

\* The second release: two other archives, each with its digest.
SoundRelease(pbs) == Release(1, 3, FALSE, FALSE, ValidAssets(pbs))

FailingListings(pbs) ==
    UNION {{<<Page(p1, <<FailingRelease(pbs, answers1, answers2), SoundRelease(pbs)>>)>>,
            <<Page(p1, <<FailingRelease(pbs, answers1, answers2)>>),
              Page(p2, <<SoundRelease(pbs)>>)>>} :
           p1 \in PageAnswers, p2 \in PageAnswers,
           answers1 \in {Found(5), Unavailable},
           answers2 \in {Found(6), Unavailable}}

CollectNext ==
    \E pages \in FailingListings(project_name = "python-build-standalone") :
        Backfill(pages)

CollectSpec == Init /\ [][CollectNext]_vars

\* Every attempt of the loop "for attempt in range(1, 4)" gets a 502, 503
\* or 504.
Exhausted(responses) ==
    \A attempt \in 1..3 :
        responses[Min(attempt, Len(responses))].status_code \in {502, 503, 504}

\* The artifacts of the ledger.
LedgerArtifacts == UNION {Range(Ledger[i].artifacts) : i \in DOMAIN Ledger}

\* The assets of all releases of the listing.
ListedAssets ==
    UNION {UNION {Range(arg[p].data[k].assets) : k \in DOMAIN arg[p].data} :
              p \in DOMAIN arg}

\* The answers of the sidecar of an archive of the listing.
ListedSidecar(name) ==
    (CHOOSE asset \in ListedAssets :
         asset.name = [name EXCEPT !.sidecar = TRUE]).responses

\* C14: when the three attempts of a digest fetch are exhausted, the
\* artifact of that digest alone is missing: the run ends with the ledger
\* written, holding every artifact of every release whose own digest was
\* served; when the three attempts of a page of the release listing are
\* exhausted, the run aborts and the ledger is not written.
C14_RetriesExhausted ==
    op = "backfill" =>
        IF \E p \in DOMAIN arg : Exhausted(arg[p].responses)
        THEN status = "abort" /\ Ledger = before
        ELSE /\ status = "ok"
             /\ file = WriteLines(batch)
             /\ \A asset \in ListedAssets :
                    ~asset.name.sidecar =>
                        LET emitted == {a \in LedgerArtifacts : a.url = asset.name}
                        IN  IF Exhausted(ListedSidecar(asset.name))
                            THEN emitted = {}
                            ELSE /\ emitted # {}
                                 /\ \A a \in emitted :
                                        a.sha256 = fetch_sha256(ListedSidecar(asset.name))

\* A collect whose first release has one sidecar that answers 503 three
\* times: the ledger holds the other archive of that release and the
\* archives of the release after it.
C14_Witness ==
    /\ op = "backfill"
    /\ status = "ok"
    /\ \E asset \in Range(arg[1].data[1].assets) :
           /\ asset.name.sidecar
           /\ Exhausted(asset.responses)
           /\ Len(SelectSeq(requests, LAMBDA r : r.kind = "sha256" /\ r.name = asset.name)) = 3
           /\ ~\E a \in LedgerArtifacts : a.url = [asset.name EXCEPT !.sidecar = FALSE]
    /\ \E asset \in Range(arg[1].data[1].assets) :
           /\ ~asset.name.sidecar
           /\ \E a \in LedgerArtifacts : a.url = asset.name
    /\ \A asset \in Range(SoundRelease(project_name = "python-build-standalone").assets) :
           ~asset.name.sidecar => \E a \in LedgerArtifacts : a.url = asset.name

\* C21: a fetch of a digest sidecar makes at most 3 requests, makes a
\* further request only after a 502, 503 or 504, and after a 404 makes no
\* other request and returns "no digest" without raising.
C21_SidecarFetchAttempts ==
    op = "fetch_sha256" =>
        /\ Len(requests) \in 1..3
        /\ \A k \in 2..Len(requests) :
               arg[Min(k - 1, Len(arg))].status_code \in {502, 503, 504}
        /\ \A k \in 1..Len(requests) :
               arg[Min(k, Len(arg))].status_code = 404 =>
                   /\ Len(requests) = k
                   /\ batch = 0
                   /\ status = "ok"

\* The URL answers 404 and would have served a digest to a second
\* request: one request was made and no digest returned.
C21_Witness ==
    /\ op = "fetch_sha256"
    /\ arg = <<Response(404, 0), Response(200, 5)>>
    /\ Len(requests) = 1
    /\ batch = 0
    /\ status = "ok"

\* The positions of the assets of the release that the runtime-distribution
\* branch keeps: an archive whose name parses, with a URL and a digest
\* among those resolved for the release.
KeptAssets(release) ==
    {i \in DOMAIN release.assets :
        /\ Qualifies(release.assets[i].name, TRUE)
        /\ release.assets[i].name.ext \in {"tar.gz", "tar.zst"}
        /\ release.assets[i].browser_download_url
        /\ DictGet(fetch_release_checksums(release), release.assets[i].name) # 0}

\* The kept assets of one composite version.
GroupOf(release, version) ==
    {i \in KeptAssets(release) :
        parse_pbs_asset_filename(release.assets[i].name).value.version = version}

\* C22: in the runtime-distribution branch the kept assets of a release are
\* grouped by composite version: there is exactly one Version per version
\* of a kept asset, dated with the release's publish time, the Versions
\* come in descending order of version, and each holds one artifact for
\* every kept asset of its group, whatever became of the other assets.
C22_GroupedByCompositeVersion ==
    (/\ op = "process_release"
     /\ project_name = "python-build-standalone"
     /\ Taken(arg[1], arg[2])) =>
        /\ \A v, w \in DOMAIN batch : v < w => batch[v].version > batch[w].version
        /\ {batch[v].version : v \in DOMAIN batch}
               = {parse_pbs_asset_filename(arg[1].assets[i].name).value.version :
                     i \in KeptAssets(arg[1])}
        /\ \A v \in DOMAIN batch :
               /\ batch[v].date = arg[1].published_at
               /\ Len(batch[v].artifacts)
                      = Cardinality(GroupOf(arg[1], batch[v].version))
               /\ \A i \in GroupOf(arg[1], batch[v].version) :
                      \E k \in DOMAIN batch[v].artifacts :
                          /\ batch[v].artifacts[k].url = arg[1].assets[i].name
                          /\ batch[v].artifacts[k].sha256 =
                                 DictGet(fetch_release_checksums(arg[1]),
                                         arg[1].assets[i].name)

\* A release with two archives of one composite version, the second
\* without a digest: one Version with the first archive alone.
C22_Witness ==
    /\ op = "process_release"
    /\ project_name = "python-build-standalone"
    /\ Taken(arg[1], arg[2])
    /\ \E i, j \in DOMAIN arg[1].assets :
           /\ i \in KeptAssets(arg[1])
           /\ j \notin KeptAssets(arg[1])
           /\ Qualifies(arg[1].assets[j].name, TRUE)
           /\ parse_pbs_asset_filename(arg[1].assets[i].name).value.version
                  = parse_pbs_asset_filename(arg[1].assets[j].name).value.version
    /\ Len(batch) = 1
    /\ Len(batch[1].artifacts) = 1
    /\ batch[1].date = arg[1].published_at

\* The releases of the listing in upstream order, from page p on.
RECURSIVE Listed(_, _)
Listed(pages, p) ==
    IF p > Len(pages) THEN <<>> ELSE pages[p].data \o Listed(pages, p + 1)

\* The listing has a release on every page, every release is dated, and
\* the publish times do not increase along the listing.
NewestFirst(pages) ==
    /\ \A p \in DOMAIN pages : pages[p].data # <<>>
    /\ \A i \in DOMAIN Listed(pages, 1) : Listed(pages, 1)[i].published_at # 0
    /\ \A i, j \in DOMAIN Listed(pages, 1) :
           i < j => Listed(pages, 1)[i].published_at >= Listed(pages, 1)[j].published_at

\* C23: when the upstream listing is ordered by non-increasing publish time
\* across its pages, fetch_github_releases with a cutoff returns exactly
\* the releases published at or after the cutoff, in upstream order.
C23_OrderedListingCutExactly ==
    (/\ op = "fetch_github_releases"
     /\ arg[2].set
     /\ NewestFirst(arg[1])) =>
        /\ batch.ok
        /\ batch.value = SelectSeq(Listed(arg[1], 1), LAMBDA r : ~Stale(r))

\* An ordered listing of two pages, the first ending with a release
\* published at the cutoff and the second holding older ones only.
C23_Witness ==
    /\ op = "fetch_github_releases"
    /\ arg[2] = CutoffAt(2)
    /\ NewestFirst(arg[1])
    /\ Len(arg[1]) = 2
    /\ Len(arg[1][1].data) = 2
    /\ arg[1][1].data[1].published_at = 3
    /\ arg[1][1].data[2].published_at = 2
    /\ Len(arg[1][2].data) = 2
    /\ batch.ok
    /\ batch.value = arg[1][1].data

----------------------------------------------------------------------------
\* Rejected payloads (checked under Spec).

\* The payload is not JSON, has no name (and none is given by --name), or
\* has an entry without version or without artifacts.
RejectedPayload(payload, name_override) ==
    \/ ~payload.json
    \/ name_override = 0 /\ payload.name = 0
    \/ \E i \in DOMAIN PayloadEntries(payload) :
           \/ PayloadEntries(payload)[i].version = 0
           \/ PayloadEntries(payload)[i].artifacts = <<>>

\* C24: a publish whose JSON payload is unparseable or rejected (no name,
\* or an entry without version or without artifacts) aborts before the
\* merge: the file is left exactly as it was, also when other entries of
\* the payload are valid.
C24_RejectedPayloadLeavesFile ==
    [][(op' = "publish_json" /\ RejectedPayload(arg'[1], arg'[2])) =>
           (status' = "abort" /\ file' = file)]_vars

\* A payload listing a valid entry and one without artifacts was published
\* on a ledger that held an entry: the run aborted and the ledger is as
\* before.
C24_Witness ==
    /\ op = "publish_json"
    /\ Len(arg[1].versions) = 2
    /\ normalize_payload_version(arg[1].versions[1], 1).ok
    /\ arg[1].versions[2].artifacts = <<>>
    /\ status = "abort"
    /\ before # <<>>
    /\ Ledger = before
    /\ ~\E i \in DOMAIN Ledger : Ledger[i].version = arg[1].versions[1].version

----------------------------------------------------------------------------
\* The frame of the merge (checked under MergeSpec).

\* The entries of the ledger before the merge that the batch does not
\* replace, in their order.
Untouched ==
    SelectSeq(before, LAMBDA v : v.version \notin IncomingVersions(batch))

\* What the cap leaves for the incoming entries and for the others.
IncomingRoom == Min(Len(batch), max_versions)
UntouchedRoom == Min(Len(Untouched), max_versions - IncomingRoom)

\* C25: after a merge the existing entries whose version is not in the
\* batch stand behind the incoming entries with their content and in
\* their order, and those missing are the last ones, cut by the cap.
C25_UntouchedEntriesKept ==
    op = "merge" =>
        /\ Len(Ledger) = IncomingRoom + UntouchedRoom
        /\ \A k \in 1..UntouchedRoom : Ledger[IncomingRoom + k] = Untouched[k]
        /\ \A k \in 1..IncomingRoom :
               Ledger[k].version \in IncomingVersions(batch)

\* A ledger of three entries merged with a batch that replaces the second,
\* under a cap of 2: the first entry follows the incoming one and the
\* third is cut.
C25_Witness ==
    /\ op = "merge"
    /\ ~repeated
    /\ max_versions = 2
    /\ Len(before) = 3
    /\ Len(batch) = 1
    /\ batch[1].version = before[2].version
    /\ Len(Untouched) = 2
    /\ Ledger = <<batch[1], before[1]>>
    /\ before[3] \notin Range(Ledger)

====
